---- MODULE Spec2Model ----
(***************************************************************************)
(* Model of the jobly back end.  Its dynamic SQL construction              *)
(* (src/helpers/sql.js): sqlForPartialUpdate, companyWriteWhere and        *)
(* jobWriteWhere, called one after another, is the specification Spec.     *)
(* The models and routes that use it on the jobs, companies and users      *)
(* tables are the specifications JobsSpec, ListingSpec, CreateRemoveSpec,  *)
(* UpdatesSpec, CompaniesSpec, AuthSpec, UsersSpec and ApplySpec further   *)
(* down; RaceSpec runs Job.create calls that overlap.                      *)
(*                                                                         *)
(* A JS value is a record [t, n, s]: its type tag, its number (a boolean   *)
(* is kept as 0/1 in n) and its string.  A JS string that the code builds  *)
(* (setCols, where) is the sequence of its lexemes: the where texts are    *)
(* split at their blanks and parentheses, a SET fragment is                *)
(* <<"\"", column, "\"", "=", "$n">>, and the ", " that join() inserts is  *)
(* a lexeme of its own.                                                    *)
(***************************************************************************)
EXTENDS Integers, Sequences, FiniteSets, TLC

VARIABLES
    last,      \* the most recent compiler call: its function, arguments, outcome
    prev,      \* the call that ran before it
    jobs,      \* the rows of the jobs table
    companies, \* the rows of the companies table
    users,     \* the rows of the users table
    nextId,    \* the next value of the jobs.id sequence
    queries,   \* the queries the latest operation sent to db.query, in order
    out,       \* the latest model call or request and its outcome
    applications, \* the rows of the applications table
    calls      \* the Job.create calls in flight: where each one stands

vars == <<last, prev, jobs, companies, users, nextId, queries, out, applications, calls>>

\* What the database client holds and is sent.
dbVars == <<jobs, companies, users, applications, nextId, queries>>

\* The largest number of fields of a dataToUpdate object that is explored.
MaxFields == 2

(***************************************************************************)
(* JavaScript values and truthiness                                        *)
(***************************************************************************)
Undefined == [t |-> "undefined", n |-> 0, s |-> ""]

Null == [t |-> "null", n |-> 0, s |-> ""]

Num(k) == [t |-> "number", n |-> k, s |-> ""]

Str(x) == [t |-> "string", n |-> 0, s |-> x]

Bool(b) == [t |-> "boolean", n |-> IF b THEN 1 ELSE 0, s |-> ""]

\* Variant of Truthy: presence tested as `!== undefined`, so 0, "" and false count.
Truthy_DefinedOnly(v) == v.t # "undefined"

\* ToBoolean: undefined, null, false, 0 and "" are falsy, all else is truthy.
Truthy(v) ==
    CASE v.t = "undefined" -> FALSE
      [] v.t = "null"      -> FALSE
      [] v.t = "boolean"   -> v.n = 1
      [] v.t = "number"    -> v.n # 0
      [] v.t = "string"    -> v.s # ""

\* The text "$n" of a positional parameter.
Placeholder(n) == "$" \o ToString(n)

\* new BadRequestError(message), thrown.
BadRequestError(message) ==
    [kind |-> "throw", error |-> "BadRequestError", message |-> message]

\* Variant of ReturnNull: an empty filter is rejected like an empty update.
ReturnNull_Throws == BadRequestError("No data")

\* return null
ReturnNull == [kind |-> "null"]

\* Variant of WhereClause: the arguments collected with unshift, last one first.
WhereClause_Unshift(where, values) ==
    [kind |-> "object", where |-> where,
     values |-> [i \in 1..Len(values) |-> values[Len(values) + 1 - i]]]

\* return {where, values}
WhereClause(where, values) ==
    [kind |-> "object", where |-> where, values |-> values]

(***************************************************************************)
(* sqlForPartialUpdate(dataToUpdate, jsToSql)                              *)
(* dataToUpdate is an object: the sequence of its [key, value] properties  *)
(* in iteration order.  jsToSql is a function from its own keys to column  *)
(* names.                                                                  *)
(***************************************************************************)
ObjectKeys(obj) == [i \in 1..Len(obj) |-> obj[i].key]

ObjectValues(obj) == [i \in 1..Len(obj) |-> obj[i].value]

\* jsToSql[colName]: the mapped name, or undefined without an entry.
Lookup(jsToSql, colName) ==
    IF colName \in DOMAIN jsToSql THEN Str(jsToSql[colName]) ELSE Undefined

\* Variant of ColumnName: the rename map is not consulted.
ColumnName_NoRename(jsToSql, colName) == colName

\* jsToSql[colName] || colName
ColumnName(jsToSql, colName) ==
    IF Truthy(Lookup(jsToSql, colName)) THEN Lookup(jsToSql, colName).s
    ELSE colName

\* Variant of ColFragment: the placeholder is $idx, numbered from 0.
ColFragment_ZeroBased(jsToSql, colName, idx) ==
    <<"\"", ColumnName(jsToSql, colName), "\"", "=", Placeholder(idx)>>

\* Variant of ColFragment: the position is counted on from the values of the
\* call before, as with an argument list shared by the calls.
ColFragment_Continued(jsToSql, colName, idx) ==
    LET before == IF last.fn # "none" /\ last.result.kind = "object"
                  THEN Len(last.result.values) ELSE 0
    IN <<"\"", ColumnName(jsToSql, colName), "\"", "=",
         Placeholder(before + idx + 1)>>

\* `"${jsToSql[colName] || colName}"=$${idx + 1}` for the idx-th key (from 0)
ColFragment(jsToSql, colName, idx) ==
    <<"\"", ColumnName(jsToSql, colName), "\"", "=", Placeholder(idx + 1)>>

\* keys.map((colName, idx) => ...)
Cols(keys, jsToSql) ==
    [i \in 1..Len(keys) |-> ColFragment(jsToSql, keys[i], i - 1)]

\* Array.prototype.join on an array of texts
RECURSIVE Join(_, _)
Join(parts, sep) ==
    IF Len(parts) = 0 THEN <<>>
    ELSE IF Len(parts) = 1 THEN parts[1]
    ELSE parts[1] \o <<sep>> \o Join(Tail(parts), sep)

\* Variant of sqlForPartialUpdate without the check of keys.length.
sqlForPartialUpdate_NoEmptyCheck(dataToUpdate, jsToSql) ==
    [kind    |-> "object",
     setCols |-> Join(Cols(ObjectKeys(dataToUpdate), jsToSql), ", "),
     values  |-> ObjectValues(dataToUpdate)]

sqlForPartialUpdate(dataToUpdate, jsToSql) ==
    LET keys == ObjectKeys(dataToUpdate) IN
    IF Len(keys) = 0 THEN BadRequestError("No data")
    ELSE [kind    |-> "object",
          setCols |-> Join(Cols(keys, jsToSql), ", "),
          values  |-> ObjectValues(dataToUpdate)]

(***************************************************************************)
(* companyWriteWhere({name, min, max})                                     *)
(***************************************************************************)
\* Variant of companyWriteWhere: the last branch also compares with max.
companyWriteWhere_KeepsMax(c) ==
    LET name == c.name
        min  == c.min
        max  == c.max
    IN
    IF ~Truthy(name) /\ ~Truthy(min) /\ ~Truthy(max) THEN ReturnNull
    ELSE IF ~Truthy(name) /\ ~Truthy(min) THEN
        WhereClause(<<"WHERE", "num_employees", "<=", "$1">>,
            <<max>>)
    ELSE IF ~Truthy(name) /\ ~Truthy(max) THEN
        WhereClause(<<"WHERE", "num_employees", ">=", "$1">>,
            <<min>>)
    ELSE IF ~Truthy(name) THEN
        WhereClause(<<"WHERE", "num_employees", ">=", "$1", "AND", "num_employees", "<=", "$2">>,
            <<min, max>>)
    ELSE IF ~Truthy(max) /\ ~Truthy(min) THEN
        WhereClause(<<"WHERE", "UPPER(", "name", ")", "LIKE", "UPPER(", "$1", ")">>,
            <<name>>)
    ELSE IF ~Truthy(min) THEN
        WhereClause(<<"WHERE", "UPPER(", "name", ")", "LIKE", "UPPER(", "$1", ")", "AND", "num_employees", "<=", "$2">>,
            <<name, max>>)
    ELSE IF ~Truthy(max) THEN
        WhereClause(<<"WHERE", "UPPER(", "name", ")", "LIKE", "UPPER(", "$1", ")", "AND", "num_employees", ">=", "$2">>,
            <<name, min>>)
    ELSE
        WhereClause(<<"WHERE", "UPPER(", "name", ")", "LIKE", "UPPER(", "$1", ")", "AND", "num_employees", ">=", "$2", "AND", "num_employees", "<=", "$3">>,
            <<name, min, max>>)

companyWriteWhere(c) ==
    LET name == c.name
        min  == c.min
        max  == c.max
    IN
    IF ~Truthy(name) /\ ~Truthy(min) /\ ~Truthy(max) THEN ReturnNull
    ELSE IF ~Truthy(name) /\ ~Truthy(min) THEN
        WhereClause(<<"WHERE", "num_employees", "<=", "$1">>,
            <<max>>)
    ELSE IF ~Truthy(name) /\ ~Truthy(max) THEN
        WhereClause(<<"WHERE", "num_employees", ">=", "$1">>,
            <<min>>)
    ELSE IF ~Truthy(name) THEN
        WhereClause(<<"WHERE", "num_employees", ">=", "$1", "AND", "num_employees", "<=", "$2">>,
            <<min, max>>)
    ELSE IF ~Truthy(max) /\ ~Truthy(min) THEN
        WhereClause(<<"WHERE", "UPPER(", "name", ")", "LIKE", "UPPER(", "$1", ")">>,
            <<name>>)
    ELSE IF ~Truthy(min) THEN
        WhereClause(<<"WHERE", "UPPER(", "name", ")", "LIKE", "UPPER(", "$1", ")", "AND", "num_employees", "<=", "$2">>,
            <<name, max>>)
    ELSE
        WhereClause(<<"WHERE", "UPPER(", "name", ")", "LIKE", "UPPER(", "$1", ")", "AND", "num_employees", ">=", "$2">>,
            <<name, min>>)

(***************************************************************************)
(* jobWriteWhere({title, minSalary, hasEquity})                            *)
(***************************************************************************)
\* Variant of jobWriteWhere: the title and minSalary branch looks at hasEquity.
jobWriteWhere_KeepsEquity(c) ==
    LET title     == c.title
        minSalary == c.minSalary
        hasEquity == c.hasEquity
    IN
    IF ~Truthy(title) /\ ~Truthy(minSalary) /\ ~Truthy(hasEquity) THEN ReturnNull
    ELSE IF ~Truthy(title) /\ ~Truthy(minSalary) THEN
        WhereClause(<<"WHERE", "equity", ">", "$1">>,
            <<Num(0)>>)
    ELSE IF ~Truthy(title) /\ ~Truthy(hasEquity) THEN
        WhereClause(<<"WHERE", "salary", ">=", "$1">>,
            <<minSalary>>)
    ELSE IF ~Truthy(title) THEN
        WhereClause(<<"WHERE", "salary", ">=", "$1", "AND", "equity", ">", "$2">>,
            <<minSalary, Num(0)>>)
    ELSE IF ~Truthy(hasEquity) /\ ~Truthy(minSalary) THEN
        WhereClause(<<"WHERE", "UPPER(", "title", ")", "LIKE", "UPPER(", "$1", ")">>,
            <<title>>)
    ELSE IF ~Truthy(minSalary) THEN
        WhereClause(<<"WHERE", "UPPER(", "title", ")", "LIKE", "UPPER(", "$1", ")", "AND", "equity", ">", "$2">>,
            <<title, Num(0)>>)
    ELSE IF ~Truthy(hasEquity) THEN
        WhereClause(<<"WHERE", "UPPER(", "title", ")", "LIKE", "UPPER(", "$1", ")", "AND", "salary", ">=", "$2">>,
            <<title, minSalary>>)
    ELSE
        WhereClause(<<"WHERE", "UPPER(", "title", ")", "LIKE", "UPPER(", "$1", ")", "AND", "salary", ">=", "$2", "AND", "equity", ">", "$3">>,
            <<title, minSalary, Num(0)>>)

jobWriteWhere(c) ==
    LET title     == c.title
        minSalary == c.minSalary
        hasEquity == c.hasEquity
    IN
    IF ~Truthy(title) /\ ~Truthy(minSalary) /\ ~Truthy(hasEquity) THEN ReturnNull
    ELSE IF ~Truthy(title) /\ ~Truthy(minSalary) THEN
        IF Truthy(hasEquity) THEN
            WhereClause(<<"WHERE", "equity", ">", "$1">>,
            <<Num(0)>>)
        ELSE ReturnNull
    ELSE IF ~Truthy(title) /\ ~Truthy(hasEquity) THEN
        WhereClause(<<"WHERE", "salary", ">=", "$1">>,
            <<minSalary>>)
    ELSE IF ~Truthy(title) THEN
        IF Truthy(hasEquity) THEN
            WhereClause(<<"WHERE", "salary", ">=", "$1", "AND", "equity", ">", "$2">>,
            <<minSalary, Num(0)>>)
        ELSE
            WhereClause(<<"WHERE", "salary", ">=", "$1">>,
            <<minSalary>>)
    ELSE IF ~Truthy(hasEquity) /\ ~Truthy(minSalary) THEN
        WhereClause(<<"WHERE", "UPPER(", "title", ")", "LIKE", "UPPER(", "$1", ")">>,
            <<title>>)
    ELSE IF ~Truthy(minSalary) THEN
        IF Truthy(hasEquity) THEN
            WhereClause(<<"WHERE", "UPPER(", "title", ")", "LIKE", "UPPER(", "$1", ")", "AND", "equity", ">", "$2">>,
            <<title, Num(0)>>)
        ELSE
            WhereClause(<<"WHERE", "UPPER(", "title", ")", "LIKE", "UPPER(", "$1", ")">>,
            <<title>>)
    ELSE
        WhereClause(<<"WHERE", "UPPER(", "title", ")", "LIKE", "UPPER(", "$1", ")", "AND", "salary", ">=", "$2">>,
            <<title, minSalary>>)

(***************************************************************************)
(* The arguments the callers pass                                          *)
(***************************************************************************)
\* Fields of the update bodies of the three models.
FieldNames == {"title", "numEmployees", "firstName"}

\* The value sent for a field.
FieldValue(k) ==
    CASE k = "title"        -> Str("cook")
      [] k = "numEmployees" -> Num(0)
      [] k = "firstName"    -> Null

\* The rename maps of the callers, and the empty map of the helper's test.
NoRenames == [k \in {} |-> ""]

CompanyRenames ==
    [k \in {"numEmployees", "logoUrl"} |->
        IF k = "numEmployees" THEN "num_employees" ELSE "logo_url"]

UserRenames ==
    [k \in {"firstName", "lastName", "isAdmin"} |->
        CASE k = "firstName" -> "first_name"
          [] k = "lastName"  -> "last_name"
          [] k = "isAdmin"   -> "is_admin"]

RenameMaps == {NoRenames, CompanyRenames, UserRenames}

\* Objects of at most MaxFields properties, each key at most once, in every
\* insertion order.
RECURSIVE KeyOrders(_)
KeyOrders(n) ==
    IF n = 0 THEN {<<>>}
    ELSE LET shorter == KeyOrders(n - 1) IN
         shorter \cup
         {Append(ks, k) : <<ks, k>> \in
             {p \in shorter \X FieldNames :
                 /\ Len(p[1]) = n - 1
                 /\ \A i \in 1..Len(p[1]) : p[1][i] # p[2]}}

UpdateRequests ==
    {[i \in 1..Len(ks) |-> [key |-> ks[i], value |-> FieldValue(ks[i])]] :
        ks \in KeyOrders(MaxFields)}

NameValues == {Undefined, Str(""), Str("%net%")}

MinValues == {Undefined, Num(0), Num(10)}

MaxValues == {Undefined, Num(0), Num(50)}

CompanyCriteria == [name : NameValues, min : MinValues, max : MaxValues]

TitleValues == {Undefined, Str(""), Str("%cook%")}

MinSalaryValues == {Undefined, Num(0), Num(500)}

HasEquityValues == {Undefined, Bool(TRUE), Bool(FALSE)}

JobCriteria ==
    [title : TitleValues, minSalary : MinSalaryValues, hasEquity : HasEquityValues]

(***************************************************************************)
(* The calls                                                               *)
(***************************************************************************)
NoCall == [fn |-> "none"]

\* No model call or request made yet.
NoOp == [op |-> "none"]

Init ==
    /\ last = NoCall
    /\ prev = NoCall
    /\ jobs = {}
    /\ companies = {}
    /\ users = {}
    /\ nextId = 1
    /\ queries = <<>>
    /\ out = NoOp
    /\ applications = {}
    /\ calls = {}

\* Variant of UpdateArgumentsAfter: each key is deleted from dataToUpdate once
\* its fragment is written.
UpdateArgumentsAfter_Consumed(dataToUpdate, jsToSql) ==
    [dataToUpdate |-> <<>>, jsToSql |-> jsToSql]

\* The arguments of sqlForPartialUpdate as the call leaves them: they are read
\* through Object.keys, Object.values and jsToSql[colName] and never assigned.
UpdateArgumentsAfter(dataToUpdate, jsToSql) ==
    [dataToUpdate |-> dataToUpdate, jsToSql |-> jsToSql]

\* The criteria record as a filter compiler leaves it: it is destructured into
\* locals, and values is a new array.
CriteriaAfter(c) == c

CallSqlForPartialUpdate ==
    \E dataToUpdate \in UpdateRequests, jsToSql \in RenameMaps :
        /\ last' = [fn     |-> "sqlForPartialUpdate",
                    args   |-> [dataToUpdate |-> dataToUpdate, jsToSql |-> jsToSql],
                    after  |-> UpdateArgumentsAfter(dataToUpdate, jsToSql),
                    result |-> sqlForPartialUpdate(dataToUpdate, jsToSql)]
        /\ prev' = last
        /\ UNCHANGED <<dbVars, out, calls>>

CallCompanyWriteWhere ==
    \E c \in CompanyCriteria :
        /\ last' = [fn     |-> "companyWriteWhere",
                    args   |-> c,
                    after  |-> CriteriaAfter(c),
                    result |-> companyWriteWhere(c)]
        /\ prev' = last
        /\ UNCHANGED <<dbVars, out, calls>>

CallJobWriteWhere ==
    \E c \in JobCriteria :
        /\ last' = [fn     |-> "jobWriteWhere",
                    args   |-> c,
                    after  |-> CriteriaAfter(c),
                    result |-> jobWriteWhere(c)]
        /\ prev' = last
        /\ UNCHANGED <<dbVars, out, calls>>

Next ==
    \/ CallSqlForPartialUpdate
    \/ CallCompanyWriteWhere
    \/ CallJobWriteWhere

Spec == Init /\ [][Next]_vars

(***************************************************************************)
(* Reading a compiled text back                                            *)
(***************************************************************************)
\* The pieces of a text between the occurrences of the lexeme sep.
RECURSIVE SplitOn(_, _)
SplitOn(text, sep) ==
    IF Len(text) = 0 THEN << <<>> >>
    ELSE LET rest == SplitOn(Tail(text), sep) IN
         IF Head(text) = sep THEN << <<>> >> \o rest
         ELSE << <<Head(text)>> \o rest[1] >> \o Tail(rest)

\* The positional parameters of a text, left to right.
PlaceholdersOf(text) ==
    SelectSeq(text, LAMBDA tok : tok \in {Placeholder(i) : i \in 0..(Len(text) + 1)})

\* $1, ..., $k
Numbered(k) == [i \in 1..k |-> Placeholder(i)]

IsUpdate == last.fn = "sqlForPartialUpdate"

IsCompany == last.fn = "companyWriteWhere"

IsJob == last.fn = "jobWriteWhere"

\* The SET fragments of the clause the last call returned.
Fragments == SplitOn(last.result.setCols, ", ")

(***************************************************************************)
(* Partial-update compiler                                                 *)
(***************************************************************************)
\* C1: for a non-empty dataToUpdate of N fields, setCols is N assignment
\* fragments joined by ", ", the i-th one ending in =$i, so that the
\* placeholders read $1..$N in field order, and values is the N input values
\* in that order.
C1_UpdateFragmentsAndValues ==
    (IsUpdate /\ Len(last.args.dataToUpdate) > 0) =>
        LET d == last.args.dataToUpdate
            N == Len(d)
        IN /\ last.result.kind = "object"
           /\ Len(Fragments) = N
           /\ \A i \in 1..N :
                /\ Len(Fragments[i]) = 5
                /\ Fragments[i][4] = "="
                /\ Fragments[i][5] = Placeholder(i)
           /\ PlaceholdersOf(last.result.setCols) = Numbered(N)
           /\ Len(last.result.values) = N
           /\ \A i \in 1..N : last.result.values[i] = d[i].value

C1_Witness ==
    /\ IsUpdate
    /\ Len(last.args.dataToUpdate) >= 2
    /\ last.result.kind = "object"
    /\ last.result.values[1] # last.result.values[2]

\* C2: an empty dataToUpdate, with any rename map, throws
\* BadRequestError("No data") and no clause is returned.
C2_EmptyUpdateThrows ==
    (IsUpdate /\ Len(last.args.dataToUpdate) = 0) =>
        last.result = BadRequestError("No data")

C2_Witness ==
    /\ IsUpdate
    /\ Len(last.args.dataToUpdate) = 0
    /\ DOMAIN last.args.jsToSql # {}
    /\ last.result.kind = "throw"

\* C3: a field with an entry in the rename map is emitted under the mapped
\* name, a field without one under its own name, and either way the name
\* stands between double quotes.
C3_ColumnNames ==
    (IsUpdate /\ last.result.kind = "object") =>
        LET d == last.args.dataToUpdate
            m == last.args.jsToSql
        IN \A i \in 1..Len(d) :
             /\ Len(Fragments[i]) >= 3
             /\ Fragments[i][1] = "\""
             /\ Fragments[i][3] = "\""
             /\ d[i].key \in DOMAIN m => Fragments[i][2] = m[d[i].key]
             /\ d[i].key \notin DOMAIN m => Fragments[i][2] = d[i].key

C3_Witness ==
    /\ IsUpdate
    /\ last.result.kind = "object"
    /\ \E i, j \in 1..Len(last.args.dataToUpdate) :
         /\ last.args.dataToUpdate[i].key \in DOMAIN last.args.jsToSql
         /\ last.args.dataToUpdate[j].key \notin DOMAIN last.args.jsToSql
         /\ Fragments[i][2] # last.args.dataToUpdate[i].key

(***************************************************************************)
(* Filter compilers                                                        *)
(***************************************************************************)
\* A criterion is present when it is a non-empty string, a non-zero number
\* or the flag true.
Present(v) ==
    \/ v.t = "string" /\ v.s # ""
    \/ v.t = "number" /\ v.n # 0
    \/ v.t = "boolean" /\ v.n = 1

\* The names of the criteria of the last call, and those that are present.
CriteriaNames ==
    IF IsCompany THEN {"name", "min", "max"}
    ELSE {"title", "minSalary", "hasEquity"}

PresentCriteria == {k \in CriteriaNames : Present(last.args[k])}

ReturnsClause == (IsCompany \/ IsJob) /\ last.result.kind = "object"

\* The comparisons of the where text of the last call: what follows WHERE,
\* cut at each AND.
Comparisons == SplitOn(Tail(last.result.where), "AND")

\* A comparison is UPPER(column) LIKE UPPER($n) or column op $n.
IsMatch(cmp) == Len(cmp) = 7 /\ cmp[1] = "UPPER("

\* The criterion a comparison tests.
CriterionOf(cmp) ==
    IF IsMatch(cmp) THEN cmp[2]
    ELSE IF cmp[1] = "num_employees" THEN (IF cmp[2] = ">=" THEN "min" ELSE "max")
    ELSE IF cmp[1] = "salary" THEN "minSalary"
    ELSE "hasEquity"

\* The positional parameter a comparison holds.
ParameterOf(cmp) == IF IsMatch(cmp) THEN cmp[6] ELSE cmp[Len(cmp)]

\* The table of the company filter, row by row.
CompanyTable(c) ==
    LET n  == Present(c.name)
        mi == Present(c.min)
        ma == Present(c.max)
        match == <<"UPPER(", "name", ")", "LIKE", "UPPER(", "$1", ")">>
    IN
    CASE ~n /\ ~mi /\ ~ma -> [kind |-> "null"]
      [] ~n /\ ~mi /\ ma  ->
            [kind |-> "object", values |-> <<c.max>>,
             where |-> <<"WHERE", "num_employees", "<=", "$1">>]
      [] ~n /\ mi /\ ~ma  ->
            [kind |-> "object", values |-> <<c.min>>,
             where |-> <<"WHERE", "num_employees", ">=", "$1">>]
      [] ~n /\ mi /\ ma   ->
            [kind |-> "object", values |-> <<c.min, c.max>>,
             where |-> <<"WHERE", "num_employees", ">=", "$1", "AND",
                         "num_employees", "<=", "$2">>]
      [] n /\ ~mi /\ ~ma  ->
            [kind |-> "object", values |-> <<c.name>>,
             where |-> <<"WHERE">> \o match]
      [] n /\ ~mi /\ ma   ->
            [kind |-> "object", values |-> <<c.name, c.max>>,
             where |-> <<"WHERE">> \o match \o <<"AND", "num_employees", "<=", "$2">>]
      [] n /\ mi /\ ~ma   ->
            [kind |-> "object", values |-> <<c.name, c.min>>,
             where |-> <<"WHERE">> \o match \o <<"AND", "num_employees", ">=", "$2">>]
      [] n /\ mi /\ ma    ->
            [kind |-> "object", values |-> <<c.name, c.min>>,
             where |-> <<"WHERE">> \o match \o <<"AND", "num_employees", ">=", "$2">>]

\* C4: for each of the 8 combinations of present and absent name, min and
\* max, companyWriteWhere returns the row of the table; with all three
\* present the row is that of name and min, max being left out.
C4_CompanyTable ==
    IsCompany => last.result = CompanyTable(last.args)

C4_Witness ==
    /\ IsCompany
    /\ PresentCriteria = {"name", "min", "max"}
    /\ Len(last.result.values) = 2

\* The table of the job filter, row by row.
JobTable(c) ==
    LET t == Present(c.title)
        s == Present(c.minSalary)
        e == Present(c.hasEquity)
        match == <<"UPPER(", "title", ")", "LIKE", "UPPER(", "$1", ")">>
    IN
    CASE ~t /\ ~s /\ ~e -> [kind |-> "null"]
      [] ~t /\ ~s /\ e  ->
            [kind |-> "object", values |-> <<Num(0)>>,
             where |-> <<"WHERE", "equity", ">", "$1">>]
      [] ~t /\ s /\ ~e  ->
            [kind |-> "object", values |-> <<c.minSalary>>,
             where |-> <<"WHERE", "salary", ">=", "$1">>]
      [] ~t /\ s /\ e   ->
            [kind |-> "object", values |-> <<c.minSalary, Num(0)>>,
             where |-> <<"WHERE", "salary", ">=", "$1", "AND", "equity", ">", "$2">>]
      [] t /\ ~s /\ ~e  ->
            [kind |-> "object", values |-> <<c.title>>,
             where |-> <<"WHERE">> \o match]
      [] t /\ ~s /\ e   ->
            [kind |-> "object", values |-> <<c.title, Num(0)>>,
             where |-> <<"WHERE">> \o match \o <<"AND", "equity", ">", "$2">>]
      [] t /\ s         ->
            [kind |-> "object", values |-> <<c.title, c.minSalary>>,
             where |-> <<"WHERE">> \o match \o <<"AND", "salary", ">=", "$2">>]

\* C5: for every combination of title, minSalary (present or absent) and
\* hasEquity (true, false or absent), jobWriteWhere returns the row of the
\* table; a false hasEquity adds no condition, and with title and minSalary
\* present hasEquity is not looked at.
C5_JobTable ==
    (IsJob /\ last.args.hasEquity \in {Undefined, Bool(TRUE), Bool(FALSE)}) =>
        last.result = JobTable(last.args)

C5_Witness ==
    /\ IsJob
    /\ PresentCriteria = {"title", "minSalary", "hasEquity"}
    /\ Len(last.result.values) = 2

\* C6: a returned clause holds exactly one comparison for each present
\* criterion and none for an absent one, for every combination of present
\* criteria, all three included.
C6_OneComparisonPerPresentCriterion ==
    ReturnsClause =>
        /\ \A k \in CriteriaNames :
             Cardinality({i \in 1..Len(Comparisons) :
                             CriterionOf(Comparisons[i]) = k})
               = IF k \in PresentCriteria THEN 1 ELSE 0

\* C7: in a returned clause the placeholders read $1..$k from left to right,
\* k being the number of values, and the i-th value is the argument of the
\* i-th comparison: the criterion it tests, or 0 for equity.
C7_PlaceholdersMatchValues ==
    ReturnsClause =>
        LET k == Len(last.result.values) IN
        /\ PlaceholdersOf(last.result.where) = Numbered(k)
        /\ Len(Comparisons) = k
        /\ \A i \in 1..k :
             /\ ParameterOf(Comparisons[i]) = Placeholder(i)
             /\ last.result.values[i] =
                    IF CriterionOf(Comparisons[i]) = "hasEquity" THEN Num(0)
                    ELSE last.args[CriterionOf(Comparisons[i])]

C7_Witness ==
    /\ ReturnsClause
    /\ Len(last.result.values) = 2
    /\ last.result.values[1] # last.result.values[2]
    /\ CriterionOf(Comparisons[2]) = "max"

\* The criteria with every numeric bound 0 replaced by an absent bound.
WithoutZeroBounds(fn, c) ==
    IF fn = "companyWriteWhere"
    THEN [c EXCEPT !.min = IF @ = Num(0) THEN Undefined ELSE @,
                   !.max = IF @ = Num(0) THEN Undefined ELSE @]
    ELSE [c EXCEPT !.minSalary = IF @ = Num(0) THEN Undefined ELSE @]

\* Two calls of the same filter compiler in a row.
SameFilterTwice ==
    /\ IsCompany \/ IsJob
    /\ prev.fn = last.fn

\* C8: a bound min, max or minSalary equal to 0 gives the result of the call
\* without that bound, whatever the other two criteria are.
C8_ZeroBoundIsAbsent ==
    (/\ SameFilterTwice
     /\ WithoutZeroBounds(prev.fn, prev.args) = WithoutZeroBounds(last.fn, last.args))
        => prev.result = last.result

C8_Witness ==
    /\ SameFilterTwice
    /\ prev.args # last.args
    /\ WithoutZeroBounds(prev.fn, prev.args) = last.args
    /\ last.result.kind = "object"

(***************************************************************************)
(* All three compilers                                                     *)
(***************************************************************************)
\* The text a call returned.
TextOf(call) ==
    IF call.fn = "sqlForPartialUpdate" THEN call.result.setCols
    ELSE call.result.where

NoCriterion == PresentCriteria = {}

\* C10: the only error is BadRequestError("No data"), thrown by
\* sqlForPartialUpdate for an empty dataToUpdate and for nothing else; the
\* filter compilers never throw and return null when no criterion is present.
C10_OnlyNoDataError ==
    /\ last.fn # "none" =>
         (last.result.kind = "throw" <=>
            (IsUpdate /\ Len(last.args.dataToUpdate) = 0))
    /\ (last.fn # "none" /\ last.result.kind = "throw") =>
         last.result = BadRequestError("No data")
    /\ ((IsCompany \/ IsJob) /\ NoCriterion) => last.result.kind = "null"

C10_Witness ==
    /\ IsJob
    /\ NoCriterion
    /\ last.args.hasEquity = Bool(FALSE)
    /\ last.result.kind = "null"
    /\ prev.fn = "sqlForPartialUpdate"
    /\ prev.result.kind = "throw"

MaxJobs == 3

NotFoundError(message) ==
    [kind |-> "throw", error |-> "NotFoundError", message |-> message]

\* An error of the database driver: an unknown column, or a placeholder
\* without an argument (or the reverse).
DatabaseError(message) ==
    [kind |-> "throw", error |-> "DatabaseError", message |-> message]

\* return value
Return(value) == [kind |-> "return", value |-> value]

Query(sql, args) == [sql |-> sql, args |-> args]

\* The first position of a lexeme in a text, 0 when it is not there.
IndexOf(text, tok) ==
    IF \E i \in 1..Len(text) : text[i] = tok
    THEN CHOOSE i \in 1..Len(text) :
            text[i] = tok /\ \A j \in 1..(i - 1) : text[j] # tok
    ELSE 0

\* The lexemes after the first `from` and before the first `to` (to the end
\* when `to` does not occur).
Between(text, from, to) ==
    LET a == IndexOf(text, from)
        b == IF IndexOf(text, to) = 0 THEN Len(text) + 1 ELSE IndexOf(text, to)
    IN SubSeq(text, a + 1, b - 1)

\* The number n of the placeholder "$n" among n arguments, 0 for any other
\* lexeme.
ParamIndex(tok, n) ==
    IF \E i \in 1..n : Placeholder(i) = tok
    THEN CHOOSE i \in 1..n : Placeholder(i) = tok
    ELSE 0

\* The assignments "col"=$k of an UPDATE text and the conditions col = $k of
\* its WHERE part, each as [col, idx].
SetAssignments(sql, n) ==
    LET frags == SplitOn(Between(sql, "SET", "WHERE"), ", ") IN
    [i \in 1..Len(frags) |->
        IF Len(frags[i]) = 5
        THEN [col |-> frags[i][2], idx |-> ParamIndex(frags[i][5], n)]
        ELSE [col |-> "", idx |-> 0]]

KeyConditions(sql, n) ==
    LET conds == SplitOn(Between(sql, "WHERE", "RETURNING"), "AND") IN
    [i \in 1..Len(conds) |->
        IF Len(conds[i]) = 3
        THEN [col |-> conds[i][1], idx |-> ParamIndex(conds[i][3], n)]
        ELSE [col |-> "", idx |-> 0]]

\* UPDATE ... SET ... WHERE ... RETURNING on a table: the rows after it, the
\* rows it returns and whether the statement is accepted.  It is accepted
\* when every column exists and the placeholders are exactly $1..$n for the
\* n arguments.
DbUpdate(rows, columns, sql, args) ==
    LET n       == Len(args)
        assigns == SetAssignments(sql, n)
        conds   == KeyConditions(sql, n)
        used    == {assigns[i].idx : i \in 1..Len(assigns)}
                       \cup {conds[i].idx : i \in 1..Len(conds)}
        ok      == /\ \A i \in 1..Len(assigns) : assigns[i].col \in columns
                   /\ \A i \in 1..Len(conds) : conds[i].col \in columns
                   /\ used = 1..n
        hit     == {r \in rows :
                      \A i \in 1..Len(conds) :
                          /\ args[conds[i].idx].t # "null"
                          /\ r[conds[i].col] = args[conds[i].idx]}
        new(r)  == [c \in DOMAIN r |->
                      IF \E i \in 1..Len(assigns) : assigns[i].col = c
                      THEN args[assigns[CHOOSE i \in 1..Len(assigns) :
                                            assigns[i].col = c].idx]
                      ELSE r[c]]
    IN IF ~ok THEN [ok |-> FALSE, rows |-> rows, returning |-> {}, hit |-> {}]
       ELSE [ok |-> TRUE,
             rows |-> (rows \ hit) \cup {new(r) : r \in hit},
             returning |-> {new(r) : r \in hit},
             hit |-> hit]

(***************************************************************************)
(* class Job (models/job.js)                                               *)
(* Each method is an operator of the jobs table as it stands: the table    *)
(* after the call, the queries sent, and the results the call can have     *)
(* (more than one only where rows[0] is taken from several rows).          *)
(***************************************************************************)
JobColumns == {"id", "title", "salary", "equity", "company_handle"}

\* The rename map Job.update passes.
JobRenames == [k \in {"companyHandle"} |-> "company_handle"]

\* RETURNING title, salary, equity, company_handle AS "companyHandle"
JobView(r) ==
    [title |-> r.title, salary |-> r.salary, equity |-> r.equity,
     companyHandle |-> r.company_handle]

\* x || null
OrNull(x) == IF Truthy(x) THEN x ELSE Null

JobsWithKey(title, companyHandle) ==
    {r \in jobs : r.title = title /\ r.company_handle = companyHandle}

\* Variant of JobCreate without the duplicate check.
JobCreate_NoDuplicateCheck(data) ==
    LET row == [id |-> nextId, title |-> data.title, salary |-> OrNull(data.salary),
                equity |-> OrNull(data.equity), company_handle |-> data.companyHandle]
    IN [jobs |-> jobs \cup {row}, nextId |-> nextId + 1,
        queries |-> <<Query(<<"INSERT", "jobs">>,
              <<data.title, OrNull(data.salary), OrNull(data.equity),
                data.companyHandle>>)>>,
        results |-> {Return(JobView(row))}]

\* Job.create({ title, salary, equity, companyHandle })
JobCreate(data) ==
    LET duplicateCheck ==
            Query(<<"SELECT", "jobs", "WHERE", "title", "=", "$1", "AND",
                    "company_handle", "=", "$2">>, <<data.title, data.companyHandle>>)
        row == [id |-> nextId, title |-> data.title, salary |-> OrNull(data.salary),
                equity |-> OrNull(data.equity), company_handle |-> data.companyHandle]
    IN IF JobsWithKey(data.title, data.companyHandle) # {}
       THEN [jobs |-> jobs, nextId |-> nextId, queries |-> <<duplicateCheck>>,
             results |-> {BadRequestError("Duplicate job listing")}]
       ELSE [jobs |-> jobs \cup {row}, nextId |-> nextId + 1,
             queries |-> <<duplicateCheck,
                           Query(<<"INSERT", "jobs">>,
                                 <<data.title, OrNull(data.salary), OrNull(data.equity),
                                   data.companyHandle>>)>>,
             results |-> {Return(JobView(row))}]

\* Job.get(title)
JobGet(title) ==
    LET found == {JobView(r) : r \in {x \in jobs : x.title = title}} IN
    [jobs |-> jobs, nextId |-> nextId,
     queries |-> <<Query(<<"SELECT", "jobs", "WHERE", "title", "=", "$1">>, <<title>>)>>,
     results |-> IF found = {} THEN {NotFoundError("No jobs by that title")}
                 ELSE {Return(found)}]

\* Variant of JobUpdateQuery: the key arguments are appended in the order of
\* the route parameters' use in the message, company handle first.
JobUpdateQuery_KeysSwapped(clause, title, companyHandle) ==
    Query(<<"UPDATE", "jobs", "SET">> \o clause.setCols \o
            <<"WHERE", "title", "=", Placeholder(Len(clause.values) + 1),
              "AND", "company_handle", "=", Placeholder(Len(clause.values) + 2),
              "RETURNING", "title", "salary", "equity", "company_handle">>,
          clause.values \o <<companyHandle, title>>)

\* querySql and its arguments in Job.update
JobUpdateQuery(clause, title, companyHandle) ==
    LET handleTitleIdx == Placeholder(Len(clause.values) + 1)
        handleCompIdx  == Placeholder(Len(clause.values) + 2)
    IN Query(<<"UPDATE", "jobs", "SET">> \o clause.setCols \o
               <<"WHERE", "title", "=", handleTitleIdx,
                 "AND", "company_handle", "=", handleCompIdx,
                 "RETURNING", "title", "salary", "equity", "company_handle">>,
             clause.values \o <<title, companyHandle>>)

\* Variant of JobUpdate: the query is sent with the SET clause of an empty
\* object, the check of the result coming first.
JobUpdate_QueryFirst(title, companyHandle, data) ==
    LET clause == sqlForPartialUpdate_NoEmptyCheck(data, JobRenames)
        q      == JobUpdateQuery(clause, title, companyHandle)
    IN [jobs |-> jobs, nextId |-> nextId, queries |-> <<q>>,
        results |-> {BadRequestError("No data")}]

\* Job.update(title, companyHandle, data)
JobUpdate(title, companyHandle, data) ==
    LET clause == sqlForPartialUpdate(data, JobRenames) IN
    IF clause.kind = "throw"
    THEN [jobs |-> jobs, nextId |-> nextId, queries |-> <<>>, results |-> {clause}]
    ELSE
    LET q   == JobUpdateQuery(clause, title, companyHandle)
        res == DbUpdate(jobs, JobColumns, q.sql, q.args)
    IN IF ~res.ok
       THEN [jobs |-> jobs, nextId |-> nextId, queries |-> <<q>>,
             results |-> {DatabaseError("query rejected")}]
       ELSE [jobs |-> res.rows, nextId |-> nextId, queries |-> <<q>>,
             results |-> IF res.returning = {}
                         THEN {NotFoundError("No job by that title")}
                         ELSE {Return(JobView(r)) : r \in res.returning}]

\* Variant of JobRemove: nothing thrown when no row is deleted.
JobRemove_Silent(title, companyHandle) ==
    [jobs |-> jobs \ JobsWithKey(title, companyHandle), nextId |-> nextId,
     queries |-> <<Query(<<"DELETE", "jobs", "WHERE", "title", "=", "$1", "AND",
                           "company_handle", "=", "$2">>, <<title, companyHandle>>)>>,
     results |-> {Return(Undefined)}]

\* Job.remove(title, companyHandle)
JobRemove(title, companyHandle) ==
    LET hit == JobsWithKey(title, companyHandle) IN
    [jobs |-> jobs \ hit, nextId |-> nextId,
     queries |-> <<Query(<<"DELETE", "jobs", "WHERE", "title", "=", "$1", "AND",
                           "company_handle", "=", "$2">>, <<title, companyHandle>>)>>,
     results |-> IF hit = {} THEN {NotFoundError("No job by that title")}
                 ELSE {Return(Undefined)}]

(***************************************************************************)
(* Job.findAll and the filtered SELECT                                     *)
(***************************************************************************)
\* obj[key] of an object given as a function of its own keys.
Field(obj, key) == IF key \in DOMAIN obj THEN obj[key] ELSE Undefined

\* The strings x for which '%x%' matches a stored title (LIKE, both sides in
\* upper case).
PartsOf(text) ==
    CASE text = "cook"  -> {"cook", "oo", "k"}
      [] text = "baker" -> {"baker", "ake", "k"}
      [] OTHER          -> {text}

Like(value, pattern) ==
    /\ value.t = "string"
    /\ pattern.t = "string"
    /\ \/ pattern.s = value.s
       \/ \E x \in PartsOf(value.s) : pattern.s = "%" \o x \o "%"

\* The integer a query argument stands for in a comparison with an integer
\* column: a number, or the text of one as it arrives in a query string.
IsNumeric(v) == v.t = "number" \/ (v.t = "string" /\ v.s \in {"0", "100", "500"})

NumberOf(v) ==
    IF v.t = "number" THEN v.n
    ELSE CASE v.s = "0" -> 0 [] v.s = "100" -> 100 [] v.s = "500" -> 500

\* One comparison of a WHERE text on one row.
Holds(row, cmp, args) ==
    LET n == Len(args) IN
    IF Len(cmp) = 7 /\ cmp[1] = "UPPER("
    THEN Like(row[cmp[2]], args[ParamIndex(cmp[6], n)])
    ELSE LET a == args[ParamIndex(cmp[3], n)] IN
         /\ row[cmp[1]].t = "number"
         /\ CASE cmp[2] = ">=" -> row[cmp[1]].n >= NumberOf(a)
              [] cmp[2] = "<=" -> row[cmp[1]].n <= NumberOf(a)
              [] cmp[2] = ">"  -> row[cmp[1]].n > NumberOf(a)

\* SELECT ... FROM table <where> ORDER BY ...: the rows selected (their order
\* aside) and whether the statement is accepted.
DbSelect(rows, where, args) ==
    LET n    == Len(args)
        cmps == SplitOn(Tail(where), "AND")
        ok   == /\ PlaceholdersOf(where) = Numbered(n)
                /\ \A i \in 1..Len(cmps) :
                      Len(cmps[i]) = 3 => IsNumeric(args[ParamIndex(cmps[i][3], n)])
    IN [ok |-> ok,
        rows |-> IF ok THEN {r \in rows : \A i \in 1..Len(cmps) : Holds(r, cmps[i], args)}
                 ELSE {}]

\* The destructuring {title, minSalary, hasEquity} of the parameter.
JobFilterOf(fields) ==
    [title |-> Field(fields, "title"), minSalary |-> Field(fields, "minSalary"),
     hasEquity |-> Field(fields, "hasEquity")]

\* Job.findAll(fields)
JobFindAll(fields) ==
    LET where == jobWriteWhere(JobFilterOf(fields)) IN
    IF where.kind # "null"
    THEN LET sql == <<"SELECT", "jobs">> \o where.where
             res == DbSelect(jobs, where.where, where.values)
         IN [jobs |-> jobs, nextId |-> nextId,
             queries |-> <<Query(sql, where.values)>>,
             results |-> IF res.ok THEN {Return({JobView(r) : r \in res.rows})}
                         ELSE {DatabaseError("query rejected")}]
    ELSE [jobs |-> jobs, nextId |-> nextId,
          queries |-> <<Query(<<"SELECT", "jobs">>, <<>>)>>,
          results |-> {Return({JobView(r) : r \in jobs})}]

(***************************************************************************)
(* class User (models/user.js): register and update                        *)
(***************************************************************************)
UserColumns ==
    {"username", "password", "first_name", "last_name", "email", "is_admin",
     "set_password"}

\* bcrypt.hash(password, BCRYPT_WORK_FACTOR): a text that is not the password.
Hash(password) == Str("hash of " \o password.s)

\* RETURNING username, first_name AS "firstName", last_name AS "lastName",
\* email, is_admin AS "isAdmin"
UserView(r) ==
    [username |-> r.username, firstName |-> r.first_name, lastName |-> r.last_name,
     email |-> r.email, isAdmin |-> r.is_admin]

\* User.register({ username, password, firstName, lastName, email, isAdmin })
UserRegister(data) ==
    LET duplicateCheck ==
            Query(<<"SELECT", "users", "WHERE", "username", "=", "$1">>,
                  <<data.username>>)
        row == [username |-> data.username, password |-> Hash(data.password),
                first_name |-> data.firstName, last_name |-> data.lastName,
                email |-> data.email, is_admin |-> data.isAdmin,
                set_password |-> Bool(FALSE)]
    IN IF \E r \in users : r.username = data.username
       THEN [users |-> users, queries |-> <<duplicateCheck>>,
             results |-> {BadRequestError("Duplicate username: " \o data.username.s)}]
       ELSE [users |-> users \cup {row},
             queries |-> <<duplicateCheck,
                           Query(<<"INSERT", "users">>,
                                 <<data.username, Hash(data.password), data.firstName,
                                   data.lastName, data.email, data.isAdmin,
                                   Bool(FALSE)>>)>>,
             results |-> {Return([username |-> row.username,
                                  firstName |-> row.first_name,
                                  lastName |-> row.last_name, email |-> row.email,
                                  isAdmin |-> row.is_admin,
                                  setPassword |-> row.set_password])}]

\* if (data.password) data.password = await bcrypt.hash(data.password, ...)
HashPassword(data) ==
    [i \in 1..Len(data) |->
        IF data[i].key = "password" /\ Truthy(data[i].value)
        THEN [key |-> "password", value |-> Hash(data[i].value)]
        ELSE data[i]]

\* querySql and its arguments in User.update
UserUpdateQuery(clause, username) ==
    LET usernameVarIdx == Placeholder(Len(clause.values) + 1) IN
    Query(<<"UPDATE", "users", "SET">> \o clause.setCols \o
            <<"WHERE", "username", "=", usernameVarIdx,
              "RETURNING", "username", "first_name", "last_name", "email", "is_admin">>,
          clause.values \o <<username>>)

\* User.update(username, data)
UserUpdate(username, data) ==
    LET clause == sqlForPartialUpdate(HashPassword(data), UserRenames) IN
    IF clause.kind = "throw"
    THEN [users |-> users, queries |-> <<>>, results |-> {clause}]
    ELSE
    LET q   == UserUpdateQuery(clause, username)
        res == DbUpdate(users, UserColumns, q.sql, q.args)
    IN IF ~res.ok
       THEN [users |-> users, queries |-> <<q>>,
             results |-> {DatabaseError("query rejected")}]
       ELSE [users |-> res.rows, queries |-> <<q>>,
             results |-> IF res.returning = {}
                         THEN {NotFoundError("No user: " \o username.s)}
                         ELSE {Return(UserView(r)) : r \in res.returning}]

(***************************************************************************)
(* class User: setPassword, get, remove and applyForJob                    *)
(* These return the users and applications tables after the call.          *)
(***************************************************************************)
\* User.setPassword(username, password)
UserSetPassword(username, password) ==
    LET hashedPassword == Hash(password)
        q   == Query(<<"UPDATE", "users", "SET", "\"", "password", "\"", "=", "$1", ", ",
                       "\"", "set_password", "\"", "=", "$2",
                       "WHERE", "username", "=", "$3",
                       "RETURNING", "username", "is_admin", "set_password">>,
                     <<hashedPassword, Bool(TRUE), username>>)
        res == DbUpdate(users, UserColumns, q.sql, q.args)
    IN [users |-> res.rows, applications |-> applications, queries |-> <<q>>,
        results |-> IF res.returning = {}
                    THEN {BadRequestError("unable to set new password. please try again.")}
                    ELSE {Return([username |-> r.username, isAdmin |-> r.is_admin,
                                  setPassword |-> r.set_password]) : r \in res.returning}]

\* User.get(username); the job ids are kept as a set, their order aside.
UserGet(username) ==
    LET userQuery == Query(<<"SELECT", "users", "WHERE", "username", "=", "$1">>,
                           <<username>>)
        appQuery  == Query(<<"SELECT", "applications", "WHERE", "username", "=", "$1">>,
                           <<username>>)
        found     == {r \in users : r.username = username}
    IN IF found = {}
       THEN [users |-> users, applications |-> applications, queries |-> <<userQuery>>,
             results |-> {NotFoundError("No user: " \o username.s)}]
       ELSE [users |-> users, applications |-> applications,
             queries |-> <<userQuery, appQuery>>,
             results |-> {Return([username |-> r.username, firstName |-> r.first_name,
                                  lastName |-> r.last_name, email |-> r.email,
                                  isAdmin |-> r.is_admin,
                                  jobs |-> {a.job_id : a \in
                                              {x \in applications :
                                                  x.username = username}}]) :
                            r \in found}]

\* User.remove(username)
UserRemove(username) ==
    LET hit == {r \in users : r.username = username} IN
    [users |-> users \ hit, applications |-> applications,
     queries |-> <<Query(<<"DELETE", "users", "WHERE", "username", "=", "$1">>,
                         <<username>>)>>,
     results |-> IF hit = {} THEN {NotFoundError("No user: " \o username.s)}
                 ELSE {Return(Undefined)}]

\* The number that is not one.
NaN == [t |-> "number", n |-> 0, s |-> "NaN"]

\* isNaN(x) of a number
IsNaN(x) == x = NaN

\* parseInt(x): the integer that the longest numeral at the front of the
\* text stands for, NaN when there is none; a number is itself.
ParseInt(x) ==
    IF x.t = "number" THEN x
    ELSE CASE x.s = "1"  -> Num(1)
           [] x.s = "2"  -> Num(2)
           [] x.s = "7"  -> Num(7)
           [] x.s = "1x" -> Num(1)
           [] x.s = "2.5" -> Num(2)
           [] OTHER      -> NaN

\* The rows of applications with a username and a job id.
ApplicationsOf(username, jobId) ==
    {a \in applications : a.username = username /\ a.job_id = jobId}

\* A new row of applications; row tells rows of equal content apart.
ApplicationRow(username, jobId) ==
    [username |-> username, job_id |-> jobId, row |-> Cardinality(applications) + 1]

\* User.applyForJob(username, jobId)
UserApplyForJob(username, id) ==
    LET jobId == ParseInt(id)
        duplicateCheck ==
            Query(<<"SELECT", "applications", "WHERE", "username", "=", "$1", "AND",
                    "job_id", "=", "$2">>, <<username, jobId>>)
        checkUsername ==
            Query(<<"SELECT", "users", "WHERE", "username", "=", "$1">>, <<username>>)
        checkJobId == Query(<<"SELECT", "jobs", "WHERE", "id", "=", "$1">>, <<jobId>>)
        row == ApplicationRow(username, jobId)
        none(qs, err) == [users |-> users, applications |-> applications,
                          queries |-> qs, results |-> {err}]
    IN IF IsNaN(jobId)
       THEN none(<<>>, BadRequestError("id in url must be a number"))
       ELSE IF ApplicationsOf(username, jobId) # {}
       THEN none(<<duplicateCheck>>, BadRequestError("Duplicate application"))
       ELSE IF ~\E r \in users : r.username = username
       THEN none(<<duplicateCheck, checkUsername>>,
                 BadRequestError("that username does not exist"))
       ELSE IF ~\E j \in jobs : Num(j.id) = jobId
       THEN none(<<duplicateCheck, checkUsername, checkJobId>>,
                 BadRequestError("no job with that jobId exists"))
       ELSE [users |-> users, applications |-> applications \cup {row},
             queries |-> <<duplicateCheck, checkUsername, checkJobId,
                           Query(<<"INSERT", "applications">>, <<username, jobId>>)>>,
             results |-> {Return([username |-> username, jobId |-> jobId])}]

(***************************************************************************)
(* class Company (models/company.js): create and update                    *)
(***************************************************************************)
CompanyColumns == {"handle", "name", "description", "num_employees", "logo_url"}

\* RETURNING handle, name, description, num_employees AS "numEmployees",
\* logo_url AS "logoUrl"
CompanyView(r) ==
    [handle |-> r.handle, name |-> r.name, description |-> r.description,
     numEmployees |-> r.num_employees, logoUrl |-> r.logo_url]

\* A call of a value that is not a function.
TypeError(message) == [kind |-> "throw", error |-> "TypeError", message |-> message]

\* Whether a value of the given typeof can be called.
Callable(typeof) == typeof = "function"

\* typeof of what company.js binds to the name sqlForPartialUpdate:
\* require("../helpers/sql") without destructuring, the exports object
\* { sqlForPartialUpdate, companyWriteWhere, jobWriteWhere }.
CompanySqlForPartialUpdate == "object"

\* Company.create({ handle, name, description, numEmployees, logoUrl })
CompanyCreate(data) ==
    LET duplicateCheck ==
            Query(<<"SELECT", "companies", "WHERE", "handle", "=", "$1">>,
                  <<data.handle>>)
        row == [handle |-> data.handle, name |-> data.name,
                description |-> data.description,
                num_employees |-> OrNull(data.numEmployees),
                logo_url |-> OrNull(data.logoUrl)]
    IN IF \E r \in companies : r.handle = data.handle
       THEN [companies |-> companies, queries |-> <<duplicateCheck>>,
             results |-> {BadRequestError("Duplicate company: " \o data.handle.s)}]
       ELSE [companies |-> companies \cup {row},
             queries |-> <<duplicateCheck,
                           Query(<<"INSERT", "companies">>,
                                 <<data.handle, data.name, data.description,
                                   OrNull(data.numEmployees), OrNull(data.logoUrl)>>)>>,
             results |-> {Return(CompanyView(row))}]

\* querySql and its arguments in Company.update
CompanyUpdateQuery(clause, handle) ==
    LET handleVarIdx == Placeholder(Len(clause.values) + 1) IN
    Query(<<"UPDATE", "companies", "SET">> \o clause.setCols \o
            <<"WHERE", "handle", "=", handleVarIdx,
              "RETURNING", "handle", "name", "description", "num_employees",
              "logo_url">>,
          clause.values \o <<handle>>)

\* Company.update(handle, data)
CompanyUpdate(handle, data) ==
    IF ~Callable(CompanySqlForPartialUpdate)
    THEN [companies |-> companies, queries |-> <<>>,
          results |-> {TypeError("sqlForPartialUpdate is not a function")}]
    ELSE
    LET clause == sqlForPartialUpdate(data, CompanyRenames) IN
    IF clause.kind = "throw"
    THEN [companies |-> companies, queries |-> <<>>, results |-> {clause}]
    ELSE
    LET q   == CompanyUpdateQuery(clause, handle)
        res == DbUpdate(companies, CompanyColumns, q.sql, q.args)
    IN IF ~res.ok
       THEN [companies |-> companies, queries |-> <<q>>,
             results |-> {DatabaseError("query rejected")}]
       ELSE [companies |-> res.rows, queries |-> <<q>>,
             results |-> IF res.returning = {}
                         THEN {NotFoundError("No company: " \o handle.s)}
                         ELSE {Return(CompanyView(r)) : r \in res.returning}]

\* Company.remove(handle)
CompanyRemove(handle) ==
    LET hit == {r \in companies : r.handle = handle} IN
    [companies |-> companies \ hit,
     queries |-> <<Query(<<"DELETE", "companies", "WHERE", "handle", "=", "$1">>,
                         <<handle>>)>>,
     results |-> IF hit = {} THEN {NotFoundError("No company: " \o handle.s)}
                 ELSE {Return(Undefined)}]

(***************************************************************************)
(* Middleware (middleware/auth.js) and the answer to a request             *)
(***************************************************************************)
UnauthorizedError(message) ==
    [kind |-> "throw", error |-> "UnauthorizedError", message |-> message]

\* res.locals.user: unset, or the payload of the verified token.
NoUser ==
    [set |-> FALSE, username |-> "", isAdmin |-> Undefined, setPassword |-> Undefined]

UserPayload(username, admin, setPassword) ==
    [set |-> TRUE, username |-> username, isAdmin |-> Bool(admin),
     setPassword |-> Bool(setPassword)]

\* return next()
PassOn == [kind |-> "next"]

ensureLoggedIn(user) ==
    IF ~user.set THEN UnauthorizedError("Unauthorized") ELSE PassOn

\* Variant of isAdmin: any logged-in user passes.
isAdmin_LoggedIn(user) ==
    IF ~user.set THEN UnauthorizedError("Unauthorized") ELSE PassOn

isAdmin(user) ==
    IF ~user.set \/ ~Truthy(user.isAdmin)
    THEN UnauthorizedError("You need to be an admin to perform this function")
    ELSE PassOn

\* Variant of userOrAdmin: any logged-in user passes.
userOrAdmin_LoggedIn(user, username) ==
    IF ~user.set
    THEN UnauthorizedError("You lack the requisite credentials :p")
    ELSE PassOn

userOrAdmin(user, username) ==
    IF ~user.set \/ (~Truthy(user.isAdmin) /\ user.username # username)
    THEN UnauthorizedError("You lack the requisite credentials :p")
    ELSE PassOn

\* The status the application's error handler answers with for an error.
ErrorStatus(error) ==
    CASE error = "BadRequestError"   -> 400
      [] error = "UnauthorizedError" -> 401
      [] error = "NotFoundError"     -> 404
      [] OTHER                       -> 500

\* next(err)
ErrorResponse(err) == [status |-> ErrorStatus(err.error), body |-> err]

\* No answer: the model method was called directly.
NoResponse == [status |-> 0, body |-> Undefined]

\* A model method called without a request, as the tests do.
Direct == "call"

\* The record of one operation: the route (or Direct), res.locals.user, the
\* model call made with its result, and the answer.
Outcome(op, user, fn, args, result, status, body) ==
    [op |-> op, user |-> user,
     call |-> [fn |-> fn, args |-> args, result |-> result],
     resp |-> IF op = Direct THEN NoResponse
              ELSE IF result.kind = "return" THEN [status |-> status, body |-> body]
              ELSE ErrorResponse(result)]

\* The middleware threw: the handler does not run and nothing is sent to the
\* database.
Refused(op, user, args, err) ==
    /\ out' = [op |-> op, user |-> user,
               call |-> [fn |-> "none", args |-> args, result |-> err],
               resp |-> ErrorResponse(err)]
    /\ queries' = <<>>
    /\ UNCHANGED <<last, prev, jobs, companies, users, nextId, applications, calls>>

\* A method of Job ran to its end with the effect r.
JobsDone(op, user, fn, args, r, status, deleted) ==
    \E result \in r.results :
        /\ jobs' = r.jobs
        /\ nextId' = r.nextId
        /\ queries' = r.queries
        /\ out' = Outcome(op, user, fn, args, result, status,
                          IF fn = "Job.remove" THEN deleted ELSE result.value)
        /\ UNCHANGED <<last, prev, companies, users, applications, calls>>

(***************************************************************************)
(* Requests to routes/jobs.js and direct calls of Job                      *)
(***************************************************************************)
JobTitles == {"cook", "baker"}

CompanyHandles == {"c1", "c2"}

\* Request bodies that the jobNew schema accepts.
JobBody(title, salary, equity, companyHandle) ==
    [title |-> Str(title), salary |-> salary, equity |-> equity,
     companyHandle |-> Str(companyHandle)]

\* Two jobs of one company, the second with salary 0 and no equity.
JobPayloads ==
    {JobBody("cook", Num(100), Num(1), "c1"), JobBody("baker", Num(0), Undefined, "c1")}

\* As above, and the first title again at another company.
JobPayloadsTwoCompanies ==
    JobPayloads \cup {JobBody("cook", Num(500), Undefined, "c2")}

\* Request bodies for an update: a new title or none, salary null or absent.
JobPatch(t, nullSalary) ==
    (IF t # "" THEN <<[key |-> "title", value |-> Str(t)]>> ELSE <<>>)
        \o (IF nullSalary THEN <<[key |-> "salary", value |-> Null]>> ELSE <<>>)

JobPatches == {JobPatch(t, b) : t \in {"", "cook"}, b \in BOOLEAN}

Requesters ==
    {NoUser, UserPayload("u1", FALSE, TRUE), UserPayload("admin", TRUE, TRUE)}

\* req.query of GET /jobs: every value is a string.
JobQueries ==
    {[k \in {} |-> Str("")],
     [k \in {"location"} |-> Str("Montana")],
     [k \in {"minSalary"} |-> Str("100")],
     [k \in {"location", "minSalary"} |->
         IF k = "location" THEN Str("Montana") ELSE Str("100")],
     [k \in {"title"} |-> Str("cook")],
     [k \in {"hasEquity"} |-> Str("true")],
     [k \in {"hasEquity"} |-> Str("false")],
     [k \in {"location", "hasEquity"} |->
         IF k = "location" THEN Str("Montana") ELSE Str("true")]}

\* Arguments of direct calls of Job.findAll.
JobFindAllFields ==
    {[k \in {"undefined"} |-> Undefined],
     [k \in {"title"} |-> Str("%cook%")],
     [k \in {"minSalary"} |-> Num(100)],
     [k \in {"hasEquity"} |-> Bool(TRUE)],
     [k \in {"hasEquity"} |-> Bool(FALSE)],
     [k \in {"birthday", "recipe", "hasEquity"} |->
         CASE k = "birthday" -> Str("December 9 2002")
           [] k = "recipe"   -> Str("flour")
           [] OTHER          -> Bool(FALSE)],
     [k \in {"birthday", "minSalary"} |->
         IF k = "birthday" THEN Str("December 9 2002") ELSE Num(100)],
     [k \in {"recipe", "hasEquity"} |->
         IF k = "recipe" THEN Str("flour") ELSE Bool(TRUE)]}

\* The object GET /jobs passes to Job.findAll.
GetJobsFields(allFields) ==
    LET wanted   == {"title", "minSalary", "hasEquity"} \cap DOMAIN allFields
        filtered == [k \in wanted |-> allFields[k]]
    IN [title     |-> IF Truthy(Field(filtered, "title"))
                      THEN Str("%" \o filtered["title"].s \o "%") ELSE Undefined,
        minSalary |-> IF Truthy(Field(filtered, "minSalary"))
                      THEN filtered["minSalary"] ELSE Undefined,
        hasEquity |-> IF Truthy(Field(filtered, "hasEquity"))
                      THEN filtered["hasEquity"] ELSE Undefined]

\* router.post("/", isAdmin, ...)
PostJob(requesters, bodies) ==
    \E user \in requesters, body \in bodies :
        /\ nextId <= MaxJobs
        /\ IF isAdmin(user).kind = "throw"
           THEN Refused("POST /jobs", user, body, isAdmin(user))
           ELSE JobsDone("POST /jobs", user, "Job.create", body, JobCreate(body),
                         201, Undefined)

\* router.get("/", ...)
GetJobs(requesters, queriesSent) ==
    \E user \in requesters, query \in queriesSent :
        JobsDone("GET /jobs", user, "Job.findAll",
                 [query |-> query, fields |-> GetJobsFields(query)],
                 JobFindAll(GetJobsFields(query)), 200, Undefined)

\* router.get("/:title", ...)
GetJob(requesters) ==
    \E user \in requesters, title \in JobTitles :
        JobsDone("GET /jobs/:title", user, "Job.get", [title |-> Str(title)],
                 JobGet(Str(title)), 200, Undefined)

\* router.patch("/:title/:companyHandle", isAdmin, ...)
PatchJob(requesters, patches) ==
    \E user \in requesters, title \in JobTitles, handle \in CompanyHandles,
       body \in patches :
        LET args == [title |-> Str(title), companyHandle |-> Str(handle), data |-> body]
        IN IF isAdmin(user).kind = "throw"
           THEN Refused("PATCH /jobs/:title/:companyHandle", user, args, isAdmin(user))
           ELSE JobsDone("PATCH /jobs/:title/:companyHandle", user, "Job.update", args,
                         JobUpdate(Str(title), Str(handle), body), 200, Undefined)

\* router.delete("/:title/:companyHandle", isAdmin, ...)
DeleteJob(requesters) ==
    \E user \in requesters, title \in JobTitles, handle \in CompanyHandles :
        LET args == [title |-> Str(title), companyHandle |-> Str(handle)]
        IN IF isAdmin(user).kind = "throw"
           THEN Refused("DELETE /jobs/:title/:companyHandle", user, args, isAdmin(user))
           ELSE JobsDone("DELETE /jobs/:title/:companyHandle", user, "Job.remove", args,
                         JobRemove(Str(title), Str(handle)), 200,
                         Str(title \o " at " \o handle))

\* Job.create(data) called directly
CallJobCreate(bodies) ==
    \E body \in bodies :
        /\ nextId <= MaxJobs
        /\ JobsDone(Direct, NoUser, "Job.create", body, JobCreate(body), 0, Undefined)

\* Job.findAll(fields) called directly
CallJobFindAll ==
    \E fields \in JobFindAllFields :
        JobsDone(Direct, NoUser, "Job.findAll", fields, JobFindAll(fields),
                 0, Undefined)

\* Job.update(title, companyHandle, data) called directly
CallJobUpdate(patches) ==
    \E title \in JobTitles, handle \in CompanyHandles, data \in patches :
        JobsDone(Direct, NoUser, "Job.update",
                 [title |-> Str(title), companyHandle |-> Str(handle), data |-> data],
                 JobUpdate(Str(title), Str(handle), data), 0, Undefined)

\* Job.remove(title, companyHandle) called directly
CallJobRemove ==
    \E title \in JobTitles, handle \in CompanyHandles :
        JobsDone(Direct, NoUser, "Job.remove",
                 [title |-> Str(title), companyHandle |-> Str(handle)],
                 JobRemove(Str(title), Str(handle)), 0, Undefined)

\* A method of User ran to its end with the effect r.
UsersDone(op, user, fn, args, r, status) ==
    \E result \in r.results :
        /\ users' = r.users
        /\ queries' = r.queries
        /\ out' = Outcome(op, user, fn, args, result, status, result.value)
        /\ UNCHANGED <<last, prev, jobs, companies, nextId, applications, calls>>

Usernames == {"u1", "u2"}

\* The one user that registers; "u2" never does.
UserBodies ==
    {[username |-> Str("u1"), password |-> Str("pw"), firstName |-> Str("U1F"),
      lastName |-> Str("U1L"), email |-> Str("u1@email.com"), isAdmin |-> Bool(FALSE)]}

UserPatches ==
    {<<>>,
     <<[key |-> "firstName", value |-> Str("New")]>>,
     <<[key |-> "password", value |-> Str("new")],
       [key |-> "isAdmin", value |-> Bool(TRUE)]>>}

\* User.register(data) called directly
CallUserRegister ==
    \E body \in UserBodies :
        UsersDone(Direct, NoUser, "User.register", body, UserRegister(body), 0)

\* User.update(username, data) called directly
CallUserUpdate ==
    \E username \in Usernames, data \in UserPatches :
        UsersDone(Direct, NoUser, "User.update",
                  [username |-> Str(username), data |-> data],
                  UserUpdate(Str(username), data), 0)

\* Requests to the job routes by anonymous, plain and admin requesters.
JobsNext ==
    \/ PostJob(Requesters, JobPayloads)
    \/ GetJob(Requesters)
    \/ PatchJob(Requesters, JobPatches)
    \/ DeleteJob(Requesters)

JobsSpec == Init /\ [][JobsNext]_vars

\* Listings of the jobs an admin has posted.
ListingNext ==
    \/ PostJob({UserPayload("admin", TRUE, TRUE)}, JobPayloadsTwoCompanies)
    \/ GetJobs(Requesters, JobQueries)
    \/ CallJobFindAll

ListingSpec == Init /\ [][ListingNext]_vars

\* Job.create and Job.remove only, one call at a time.
CreateRemoveNext ==
    \/ CallJobCreate(JobPayloadsTwoCompanies)
    \/ CallJobRemove

CreateRemoveSpec == Init /\ [][CreateRemoveNext]_vars

\* Direct calls that create and update jobs and users.
UpdatesNext ==
    \/ CallJobCreate(JobPayloads)
    \/ CallJobUpdate(JobPatches)
    \/ CallUserRegister
    \/ CallUserUpdate

UpdatesSpec == Init /\ [][UpdatesNext]_vars

(***************************************************************************)
(* Updates of jobs and users                                               *)
(***************************************************************************)
\* The latest operation called the method fn of a model.
Called(fn) == out.op # "none" /\ out.call.fn = fn

UpdateCalled == Called("Job.update") \/ Called("User.update")

\* The key values of the update called, in the order of its parameters, and
\* the columns they address.
KeyValues ==
    IF Called("Job.update") THEN <<out.call.args.title, out.call.args.companyHandle>>
    ELSE <<out.call.args.username>>

KeyColumns ==
    IF Called("Job.update") THEN <<"title", "company_handle">> ELSE <<"username">>

\* The values sqlForPartialUpdate returned to the update called.
CompiledValues ==
    IF Called("Job.update")
    THEN sqlForPartialUpdate(out.call.args.data, JobRenames).values
    ELSE sqlForPartialUpdate(HashPassword(out.call.args.data), UserRenames).values

\* C12: in Job.update and User.update with a data object of N fields, the
\* WHERE part compares the key columns with $N+1 (title or username) and
\* $N+2 (company handle), the arguments bound are the N compiled values
\* followed by the key values in that order, and the placeholders of the
\* query are $1..$k for its k arguments, one argument each.
C12_KeyPlaceholdersFollowSet ==
    (UpdateCalled /\ Len(out.call.args.data) > 0) =>
        LET N == Len(out.call.args.data)
            q == queries[1]
        IN /\ Len(queries) = 1
           /\ KeyConditions(q.sql, Len(q.args)) =
                  [i \in 1..Len(KeyValues) |-> [col |-> KeyColumns[i], idx |-> N + i]]
           /\ q.args = CompiledValues \o KeyValues
           /\ Len(CompiledValues) = N
           /\ PlaceholdersOf(q.sql) = Numbered(Len(q.args))

C12_Witness ==
    /\ Called("Job.update")
    /\ Len(out.call.args.data) = 2
    /\ out.call.result.kind = "return"
    /\ queries[1].args[4] = out.call.args.companyHandle
    /\ users # {}

\* C13: Job.update and User.update called with an empty data object fail
\* with BadRequestError without sending a query, and the stored jobs and
\* users are the same after the call, whether or not the addressed row exists.
C13_EmptyUpdateRejectedFirst ==
    [][(UpdateCalled' /\ out'.call.args.data = <<>>) =>
          /\ out'.call.result = BadRequestError("No data")
          /\ queries' = <<>>
          /\ UNCHANGED <<jobs, users, nextId>>]_vars

C13_Witness ==
    /\ Called("Job.update")
    /\ out.call.args.data = <<>>
    /\ out.call.result = BadRequestError("No data")
    /\ JobsWithKey(out.call.args.title, out.call.args.companyHandle) # {}
    /\ queries = <<>>
    /\ users # {}

\* The column a key of an update's data names.
JobColumnOf(key) == IF key = "companyHandle" THEN "company_handle" ELSE key

\* A job row with the fields named in data set to data's values.
PatchedJob(r, data) ==
    [c \in DOMAIN r |->
        IF \E i \in 1..Len(data) : JobColumnOf(data[i].key) = c
        THEN data[CHOOSE i \in 1..Len(data) : JobColumnOf(data[i].key) = c].value
        ELSE r[c]]

\* C14: Job.update with non-empty data, addressed to a stored job, changes
\* in one job with that title and company handle exactly the fields named in
\* data, leaves every other job as it was, and returns the updated job.
C14_UpdateChangesOneJob ==
    [][(Called("Job.update")' /\ Len(out'.call.args.data) > 0
          /\ JobsWithKey(out'.call.args.title, out'.call.args.companyHandle) # {}) =>
          \E r \in JobsWithKey(out'.call.args.title, out'.call.args.companyHandle) :
              /\ jobs' = (jobs \ {r}) \cup {PatchedJob(r, out'.call.args.data)}
              /\ out'.call.result =
                     Return(JobView(PatchedJob(r, out'.call.args.data)))]_vars

(***************************************************************************)
(* Missing jobs, duplicates and the admin routes                           *)
(***************************************************************************)
\* The jobs the call of the latest step addresses, taken before the step.
Addressed ==
    IF out'.call.fn = "Job.get"
    THEN {r \in jobs : r.title = out'.call.args.title}
    ELSE JobsWithKey(out'.call.args.title, out'.call.args.companyHandle)

AddressesOneJob ==
    Called("Job.get")' \/ Called("Job.update")' \/ Called("Job.remove")'

AnswersNotFound ==
    /\ out'.call.result.kind = "throw"
    /\ out'.call.result.error = "NotFoundError"
    /\ out'.resp.status = 404
    /\ jobs' = jobs

\* C15 as stated: Job.get, Job.update and Job.remove addressed to a title (or
\* title and company handle) that no stored job has fail with NotFoundError,
\* the route answers 404 and the stored jobs are unchanged.
C15_MissingJobNotFound ==
    [][(AddressesOneJob /\ Addressed = {}) => AnswersNotFound]_vars

\* C15 amended: the same for Job.get, Job.remove and for Job.update with
\* non-empty data; and no call addressed to a missing job returns.
C15_MissingJobNotFoundWithData ==
    [][(AddressesOneJob /\ Addressed = {}) =>
          /\ out'.call.result.kind = "throw"
          /\ jobs' = jobs
          /\ (Called("Job.update")' /\ out'.call.args.data = <<>>) \/ AnswersNotFound]_vars

C15_Witness ==
    /\ Called("Job.remove")
    /\ out.resp.status = 404
    /\ out.call.result.error = "NotFoundError"
    /\ jobs # {}
    /\ JobsWithKey(out.call.args.title, out.call.args.companyHandle) = {}

NoDuplicateJobs(rows) ==
    \A r1, r2 \in rows :
        (r1.title = r2.title /\ r1.company_handle = r2.company_handle) => r1 = r2

\* C16: over Job.create and Job.remove calls, no two stored jobs share a
\* (title, company handle) pair; a create for a stored pair fails with
\* BadRequestError and changes nothing; a create for a pair not stored, the
\* same title at another company included, succeeds and adds exactly one job.
C16_CreateKeepsPairsUnique ==
    [][/\ NoDuplicateJobs(jobs')
       /\ Called("Job.create")' =>
            LET data == out'.call.args IN
            IF JobsWithKey(data.title, data.companyHandle) # {}
            THEN /\ out'.call.result.kind = "throw"
                 /\ out'.call.result.error = "BadRequestError"
                 /\ UNCHANGED <<jobs, nextId>>
            ELSE /\ out'.call.result.kind = "return"
                 /\ \E r \in jobs' \ jobs :
                       /\ jobs' = jobs \cup {r}
                       /\ r.title = data.title
                       /\ r.company_handle = data.companyHandle]_vars

C16_Witness ==
    /\ Called("Job.create")
    /\ out.call.result.kind = "throw"
    /\ out.call.result.error = "BadRequestError"
    /\ \E r1, r2 \in jobs :
          r1.title = r2.title /\ r1.company_handle # r2.company_handle

AdminRoutes ==
    {"POST /jobs", "PATCH /jobs/:title/:companyHandle",
     "DELETE /jobs/:title/:companyHandle"}

Recognised == {"title", "minSalary", "hasEquity"}

\* An object without its keys other than title, minSalary and hasEquity.
Strip(obj) == [k \in DOMAIN obj \cap Recognised |-> obj[k]]

\* No recognised criterion is present: title and minSalary are missing and
\* hasEquity is missing or false (the text "false" in a query string).
NoneRecognised(obj) ==
    \A k \in DOMAIN obj \cap Recognised :
        \/ obj[k] = Undefined
        \/ k = "hasEquity" /\ obj[k] \in {Bool(FALSE), Str("false")}

\* The object a listing was asked with: the argument of a direct call, the
\* query of a request.
ListingAsked == IF out.op = Direct THEN out.call.args ELSE out.call.args.query

\* The results of the same listing asked with another object.
ListingOf(obj) ==
    IF out.op = Direct THEN JobFindAll(obj).results
    ELSE JobFindAll(GetJobsFields(obj)).results

\* C18: Job.findAll and GET /jobs return what the same call without the keys
\* other than title, minSalary and hasEquity returns, and every stored job
\* when no recognised criterion is present, hasEquity false included.
C18_UnrecognisedKeysIgnored ==
    Called("Job.findAll") =>
        /\ ListingOf(Strip(ListingAsked)) = {out.call.result}
        /\ NoneRecognised(ListingAsked) =>
              out.call.result = Return({JobView(r) : r \in jobs})

(***************************************************************************)
(* Companies                                                               *)
(***************************************************************************)
\* A method of Company ran to its end with the effect r.
CompaniesDone(fn, args, r) ==
    \E result \in r.results :
        /\ companies' = r.companies
        /\ queries' = r.queries
        /\ out' = Outcome(Direct, NoUser, fn, args, result, 0, Undefined)
        /\ UNCHANGED <<last, prev, jobs, users, nextId, applications, calls>>

CompanyBodies ==
    {[handle |-> Str(h), name |-> Str("Name of " \o h), description |-> Str("Desc"),
      numEmployees |-> n, logoUrl |-> Undefined] :
        h \in CompanyHandles, n \in {Num(0), Num(10)}}

CompanyPatches ==
    {<<>>,
     <<[key |-> "name", value |-> Str("New")]>>,
     <<[key |-> "numEmployees", value |-> Num(10)],
       [key |-> "logoUrl", value |-> Str("http://new.img")]>>,
     <<[key |-> "numEmployees", value |-> Null]>>}

\* Company.create(data) called directly
CallCompanyCreate ==
    \E body \in CompanyBodies :
        CompaniesDone("Company.create", body, CompanyCreate(body))

\* Company.update(handle, data) called directly
CallCompanyUpdate ==
    \E handle \in CompanyHandles, data \in CompanyPatches :
        CompaniesDone("Company.update", [handle |-> Str(handle), data |-> data],
                      CompanyUpdate(Str(handle), data))

\* Company.remove(handle) called directly
CallCompanyRemove ==
    \E handle \in CompanyHandles :
        CompaniesDone("Company.remove", [handle |-> Str(handle)],
                      CompanyRemove(Str(handle)))

CompaniesNext ==
    \/ CallCompanyCreate
    \/ CallCompanyUpdate
    \/ CallCompanyRemove

CompaniesSpec == Init /\ [][CompaniesNext]_vars

CompanyColumnOf(key) ==
    IF key \in DOMAIN CompanyRenames THEN CompanyRenames[key] ELSE key

\* A company row with the fields named in data set to data's values.
PatchedCompany(r, data) ==
    [c \in DOMAIN r |->
        IF \E i \in 1..Len(data) : CompanyColumnOf(data[i].key) = c
        THEN data[CHOOSE i \in 1..Len(data) : CompanyColumnOf(data[i].key) = c].value
        ELSE r[c]]

\* C19: Company.update(handle, data) with non-empty data changes, in the
\* company with that handle, exactly the fields of data (numEmployees and
\* logoUrl under num_employees and logo_url) and returns the updated
\* company; for a handle no company has it fails with NotFoundError.
C19_CompanyUpdateChangesFields ==
    [][(Called("Company.update")' /\ Len(out'.call.args.data) > 0) =>
          LET hit == {r \in companies : r.handle = out'.call.args.handle} IN
          IF hit = {}
          THEN /\ out'.call.result.kind = "throw"
               /\ out'.call.result.error = "NotFoundError"
               /\ companies' = companies
          ELSE \E r \in hit :
                  /\ companies' =
                         (companies \ {r}) \cup {PatchedCompany(r, out'.call.args.data)}
                  /\ out'.call.result =
                         Return(CompanyView(PatchedCompany(r, out'.call.args.data)))]_vars

(***************************************************************************)
(* authenticateJWT (middleware/auth.js)                                    *)
(***************************************************************************)
SECRET_KEY == "secret-dev"

\* A token: a payload and the key it was signed with.
Token(payload, key) == [payload |-> payload, key |-> key]

\* A text that is not a token.
Garbage == Token(NoUser, "")

AuthTokens ==
    {Token(UserPayload(u, a, p), k) :
        u \in Usernames, a \in BOOLEAN, p \in BOOLEAN, k \in {SECRET_KEY, "other key"}}
        \cup {Garbage}

\* req.headers.authorization: missing, or a scheme in front of a token.
NoHeader == [present |-> FALSE, scheme |-> "", token |-> Garbage]

AuthHeaders ==
    {NoHeader} \cup
    {[present |-> TRUE, scheme |-> s, token |-> t] :
        s \in {"Bearer ", "bearer ", "BEARER ", ""}, t \in AuthTokens}

\* `/users/${username}/password`
PasswordUrl(username) == "/users/" \o username \o "/password"

Urls == {"/jobs", "/users/u1", PasswordUrl("u1")}

\* authHeader.replace(/^[Bb]earer /, "").trim(): what is left in front of the
\* token, and the token.
StripBearer(authHeader) ==
    [prefix |-> IF authHeader.scheme \in {"Bearer ", "bearer "} THEN ""
                ELSE authHeader.scheme,
     token  |-> authHeader.token]

\* The error jwt.verify throws.
JsonWebTokenError ==
    [kind |-> "throw", error |-> "JsonWebTokenError", message |-> "invalid token"]

\* jwt.verify(token, key): the payload of a token signed with the key.
jwtVerify(text, key) ==
    IF text.prefix = "" /\ text.token # Garbage /\ text.token.key = key
    THEN Return(text.token.payload)
    ELSE JsonWebTokenError

SetPasswordMessage(username) ==
    Str("HEY THERE! Please go to " \o PasswordUrl(username)
          \o " to set your own password.")

\* What the middleware leaves: res.locals.user, its call of next and the
\* text it sent.
AuthResult(user, nextCall, sent) == [user |-> user, next |-> nextCall, sent |-> sent]

\* Variant of authenticateJWT: the catch block hands the error to next.
authenticateJWT_CatchPassesError(req) ==
    IF ~req.authorization.present
    THEN AuthResult(NoUser, "next()", Undefined)
    ELSE LET verified == jwtVerify(StripBearer(req.authorization), SECRET_KEY) IN
         IF verified.kind = "throw"
         THEN AuthResult(NoUser, "next(err)", Undefined)
         ELSE AuthResult(verified.value, "next()", Undefined)

\* Variant of authenticateJWT: next() is called whatever setPassword is.
authenticateJWT_NoPasswordCheck(req) ==
    IF ~req.authorization.present
    THEN AuthResult(NoUser, "next()", Undefined)
    ELSE LET verified == jwtVerify(StripBearer(req.authorization), SECRET_KEY) IN
         IF verified.kind = "throw"
         THEN AuthResult(NoUser, "next()", Undefined)
         ELSE AuthResult(verified.value, "next()", Undefined)

\* authenticateJWT(req, res, next)
authenticateJWT(req) ==
    IF ~req.authorization.present
    THEN AuthResult(NoUser, "next()", Undefined)
    ELSE LET verified == jwtVerify(StripBearer(req.authorization), SECRET_KEY) IN
         IF verified.kind = "throw"
         THEN AuthResult(NoUser, "next()", Undefined)
         ELSE IF /\ ~Truthy(verified.value.setPassword)
                 /\ req.originalUrl # PasswordUrl(verified.value.username)
              THEN AuthResult(verified.value, "none",
                              SetPasswordMessage(verified.value.username))
              ELSE AuthResult(verified.value, "next()", Undefined)

\* One request passing through authenticateJWT.
Authenticate ==
    \E header \in AuthHeaders, url \in Urls :
        LET req == [authorization |-> header, originalUrl |-> url]
            r   == authenticateJWT(req)
        IN /\ out' = [op |-> "authenticateJWT", req |-> req, user |-> r.user,
                      next |-> r.next, call |-> NoCall,
                      resp |-> IF r.sent = Undefined THEN NoResponse
                               ELSE [status |-> 200, body |-> r.sent]]
           /\ queries' = <<>>
           /\ UNCHANGED <<last, prev, jobs, companies, users, nextId, applications, calls>>

AuthNext == Authenticate

AuthSpec == Init /\ [][AuthNext]_vars

Authenticated == out.op = "authenticateJWT"

\* The request carries a token signed with the secret key, alone or after
\* "Bearer " / "bearer ".
TokenVerifies ==
    /\ out.req.authorization.present
    /\ out.req.authorization.scheme \in {"Bearer ", "bearer ", ""}
    /\ out.req.authorization.token # Garbage
    /\ out.req.authorization.token.key = SECRET_KEY

\* C20: authenticateJWT never calls next with an error; without an
\* Authorization header, or with a token that fails verification, it calls
\* next() and res.locals.user stays unset; res.locals.user is set only when
\* the token verifies, and then to the token's payload.
C20_AuthenticateNeverFails ==
    Authenticated =>
        /\ out.next \in {"next()", "none"}
        /\ ~TokenVerifies => (out.next = "next()" /\ out.user = NoUser)
        /\ out.user.set => (TokenVerifies /\ out.user = out.req.authorization.token.payload)

C20_Witness ==
    /\ Authenticated
    /\ out.req.authorization.present
    /\ out.req.authorization.scheme = "Bearer "
    /\ out.req.authorization.token.key = "other key"
    /\ out.req.authorization.token.payload.isAdmin = Bool(TRUE)
    /\ out.next = "next()"
    /\ ~out.user.set

(***************************************************************************)
(* Requests to routes/users.js, each one passing through authenticateJWT   *)
(* before it reaches the router                                            *)
(***************************************************************************)
\* createToken(user): a token for the user, signed with the secret key.
createToken(user) ==
    Token([set |-> TRUE, username |-> user.username.s, isAdmin |-> user.isAdmin,
           setPassword |-> user.setPassword], SECRET_KEY)

\* makePassword.generate({ length: 15, numbers: true })
GeneratedPasswords == {"generated"}

\* The Authorization headers of the requests: none, a token signed with
\* another key, and tokens of the users u1, u2 and admin.
AppHeaders ==
    {NoHeader} \cup
    {[present |-> TRUE, scheme |-> "Bearer ", token |-> t] :
        t \in {Token(UserPayload("admin", TRUE, TRUE), "other key"),
               Token(UserPayload("u1", FALSE, TRUE), SECRET_KEY),
               Token(UserPayload("u1", FALSE, FALSE), SECRET_KEY),
               Token(UserPayload("u2", FALSE, TRUE), SECRET_KEY),
               Token(UserPayload("admin", TRUE, TRUE), SECRET_KEY),
               Token(UserPayload("admin", TRUE, FALSE), SECRET_KEY)}}

\* res.locals.user as authenticateJWT leaves it for a header and a URL.
UserOf(header, url) ==
    authenticateJWT([authorization |-> header, originalUrl |-> url]).user

\* The body of the answer of a users route.
UsersBody(fn, args, value) ==
    CASE fn = "User.register"    -> [user |-> value, token |-> createToken(value)]
      [] fn = "User.setPassword" -> [token |-> createToken(value)]
      [] fn = "User.applyForJob" -> [applied |-> value.jobId]
      [] fn = "User.remove"      -> [deleted |-> args.username]
      [] OTHER                   -> [user |-> value]

\* The effect of a method of User that leaves the applications alone.
KeepApplications(r) ==
    [users |-> r.users, applications |-> applications, queries |-> r.queries,
     results |-> r.results]

\* One request to a users route: authenticateJWT, then the route's guard,
\* then its handler calling the method fn of User with the effect r.
Routed(op, header, url, guard, fn, args, r, status) ==
    LET req  == [authorization |-> header, originalUrl |-> url]
        auth == authenticateJWT(req)
        this == [op |-> op, req |-> req, user |-> auth.user, next |-> auth.next]
    IN IF auth.next = "none"
       THEN /\ out' = this @@ [call |-> [fn |-> "none", args |-> args],
                               resp |-> [status |-> 200, body |-> auth.sent]]
            /\ queries' = <<>>
            /\ UNCHANGED <<last, prev, jobs, companies, users, nextId,
                           applications, calls>>
       ELSE IF guard.kind = "throw"
       THEN /\ out' = this @@ [call |-> [fn |-> "none", args |-> args, result |-> guard],
                               resp |-> ErrorResponse(guard)]
            /\ queries' = <<>>
            /\ UNCHANGED <<last, prev, jobs, companies, users, nextId,
                           applications, calls>>
       ELSE \E result \in r.results :
            /\ users' = r.users
            /\ applications' = r.applications
            /\ queries' = r.queries
            /\ out' = this @@
                   [call |-> [fn |-> fn, args |-> args, result |-> result],
                    resp |-> IF result.kind = "return"
                             THEN [status |-> status,
                                   body |-> UsersBody(fn, args, result.value)]
                             ELSE ErrorResponse(result)]
            /\ UNCHANGED <<last, prev, jobs, companies, nextId, calls>>

\* Request bodies that the userNew schema accepts.
NewUserBodies ==
    {[username |-> Str(u), firstName |-> Str("First"), lastName |-> Str("Last"),
      email |-> Str(u \o "@email.com"), isAdmin |-> Bool(FALSE)] : u \in Usernames}

NewPasswords == {"new"}

UserRoutePatches == {<<[key |-> "firstName", value |-> Str("New")]>>}

JobIds == {"1", "abc"}

\* router.post("/", isAdmin, ...)
PostUser ==
    \E header \in AppHeaders, body \in NewUserBodies, password \in GeneratedPasswords :
        LET data == [username |-> body.username, password |-> Str(password),
                     firstName |-> body.firstName, lastName |-> body.lastName,
                     email |-> body.email, isAdmin |-> body.isAdmin]
        IN Routed("POST /users", header, "/users", isAdmin(UserOf(header, "/users")),
                  "User.register", data, KeepApplications(UserRegister(data)), 201)

\* router.patch('/:username/password', ensureLoggedIn, ...)
PatchPassword ==
    \E header \in AppHeaders, username \in Usernames, password \in NewPasswords :
        LET url == PasswordUrl(username) IN
        Routed("PATCH /users/:username/password", header, url,
               ensureLoggedIn(UserOf(header, url)), "User.setPassword",
               [username |-> Str(username), password |-> Str(password)],
               UserSetPassword(Str(username), Str(password)), 200)

\* router.post('/:username/jobs/:id', userOrAdmin, ...)
PostApplication ==
    \E header \in AppHeaders, username \in Usernames, id \in JobIds :
        LET url == "/users/" \o username \o "/jobs/" \o id IN
        Routed("POST /users/:username/jobs/:id", header, url,
               userOrAdmin(UserOf(header, url), username), "User.applyForJob",
               [username |-> Str(username), id |-> Str(id)],
               UserApplyForJob(Str(username), Str(id)), 201)

\* router.get("/:username", userOrAdmin, ...)
GetUser ==
    \E header \in AppHeaders, username \in Usernames :
        LET url == "/users/" \o username IN
        Routed("GET /users/:username", header, url,
               userOrAdmin(UserOf(header, url), username), "User.get",
               [username |-> Str(username)], UserGet(Str(username)), 200)

\* router.patch("/:username", userOrAdmin, ...)
PatchUser ==
    \E header \in AppHeaders, username \in Usernames, body \in UserRoutePatches :
        LET url == "/users/" \o username IN
        Routed("PATCH /users/:username", header, url,
               userOrAdmin(UserOf(header, url), username), "User.update",
               [username |-> Str(username), data |-> body],
               KeepApplications(UserUpdate(Str(username), body)), 200)

\* router.delete("/:username", userOrAdmin, ...)
DeleteUser ==
    \E header \in AppHeaders, username \in Usernames :
        LET url == "/users/" \o username IN
        Routed("DELETE /users/:username", header, url,
               userOrAdmin(UserOf(header, url), username), "User.remove",
               [username |-> Str(username)], UserRemove(Str(username)), 200)

\* The one job the users apply for.
JobApplied == {JobBody("cook", Num(100), Num(1), "c1")}

UsersNext ==
    \/ CallJobCreate(JobApplied)
    \/ PostUser
    \/ PatchPassword
    \/ PostApplication
    \/ GetUser
    \/ PatchUser
    \/ DeleteUser

UsersSpec == Init /\ [][UsersNext]_vars

\* The latest step was a request to a users route.
UsersRequest == out.op # "none" /\ out.op # Direct

\* The request carries a verified token whose payload has setPassword false.
MustSetPassword ==
    /\ UsersRequest
    /\ TokenVerifies
    /\ out.req.authorization.token.payload.setPassword = Bool(FALSE)

\* C21: a request whose token verifies with setPassword false is answered by
\* authenticateJWT with the set-your-password message and next is not
\* called, for every URL other than /users/<username>/password: no handler
\* runs, no query is sent and no table changes.  For that one URL next() is
\* called and the request reaches the route.
C21_SetPasswordFirst ==
    [][MustSetPassword' =>
          LET username == out'.req.authorization.token.payload.username IN
          IF out'.req.originalUrl # PasswordUrl(username)
          THEN /\ out'.next = "none"
               /\ out'.resp = [status |-> 200, body |-> SetPasswordMessage(username)]
               /\ out'.call.fn = "none"
               /\ queries' = <<>>
               /\ UNCHANGED <<jobs, companies, users, applications, nextId>>
          ELSE /\ out'.next = "next()"
               /\ out'.op = "PATCH /users/:username/password"
               /\ out'.call.fn = "User.setPassword"]_vars

C21_Witness ==
    /\ MustSetPassword
    /\ out.op = "DELETE /users/:username"
    /\ out.req.originalUrl = "/users/u1"
    /\ out.user.username = "u1"
    /\ out.next = "none"
    /\ \E r \in users : r.username = Str("u1")

UserOrAdminRoutes ==
    {"POST /users/:username/jobs/:id", "GET /users/:username",
     "PATCH /users/:username", "DELETE /users/:username"}

\* The request reached the users router: authenticateJWT called next().
ReachedRouter == UsersRequest /\ out.next = "next()"

PasswordOf(rows, username) == {r.password : r \in {x \in rows : x.username = username}}

\* C23: PATCH /users/:username/password changes the stored password of a
\* user only in a request authenticated as that user.
C23_OwnPasswordOnly ==
    [][(UsersRequest' /\ out'.op = "PATCH /users/:username/password") =>
          \A u \in Usernames :
              PasswordOf(users', Str(u)) # PasswordOf(users, Str(u)) =>
                  (out'.user.set /\ out'.user.username = u)]_vars

(***************************************************************************)
(* hasEquity=false in a query string                                       *)
(***************************************************************************)
\* An object without one of its keys.
Without(obj, key) == [k \in DOMAIN obj \ {key} |-> obj[k]]

\* C24: GET /jobs with hasEquity=false in the query string returns the jobs
\* that the same request without the hasEquity parameter returns.
C24_HasEquityFalseIsAbsent ==
    (/\ Called("Job.findAll")
     /\ out.op = "GET /jobs"
     /\ Field(out.call.args.query, "hasEquity") = Str("false")) =>
        JobFindAll(GetJobsFields(Without(out.call.args.query, "hasEquity"))).results
            = {out.call.result}

(***************************************************************************)
(* Applications                                                            *)
(***************************************************************************)
\* A method of User called directly, with its effect r on users and
\* applications.
ApplicationsDone(fn, args, r) ==
    \E result \in r.results :
        /\ users' = r.users
        /\ applications' = r.applications
        /\ queries' = r.queries
        /\ out' = Outcome(Direct, NoUser, fn, args, result, 0, Undefined)
        /\ UNCHANGED <<last, prev, jobs, companies, nextId, calls>>

\* Job ids as the route passes them (the text of the URL) and as a number.
AppliedIds == {Str("1"), Str("2"), Str("7"), Str("1x"), Str("abc"), Num(1)}

\* User.applyForJob(username, jobId) called directly
CallUserApplyForJob ==
    \E username \in Usernames, id \in AppliedIds :
        ApplicationsDone("User.applyForJob", [username |-> Str(username), id |-> id],
                         UserApplyForJob(Str(username), id))

ApplyNext ==
    \/ CallUserRegister
    \/ CallJobCreate(JobPayloads)
    \/ CallUserApplyForJob

ApplySpec == Init /\ [][ApplyNext]_vars

\* A job id is numeric: a number, or a text that is a numeral throughout.
IsNumericId(id) == id.t = "number" \/ id.s \in {"1", "2", "7"}

\* The number a numeric job id stands for.
NumericId(id) ==
    IF id.t = "number" THEN id
    ELSE CASE id.s = "1" -> Num(1) [] id.s = "2" -> Num(2) [] id.s = "7" -> Num(7)

NoDuplicateApplications(rows) ==
    \A a, b \in rows : (a.username = b.username /\ a.job_id = b.job_id) => a = b

\* C25: over User.applyForJob calls, no two application rows share a
\* (username, job id) pair and each row is inserted for a stored user and a
\* stored job; a call with a non-numeric job id, a pair already applied, an
\* unknown username or an unknown job id fails with BadRequestError and
\* leaves the applications as they were.
C25_ApplicationsStayValid ==
    [][/\ NoDuplicateApplications(applications')
       /\ Called("User.applyForJob")' =>
            LET username == out'.call.args.username
                id       == out'.call.args.id
            IN IF \/ ~IsNumericId(id)
                  \/ ApplicationsOf(username, NumericId(id)) # {}
                  \/ ~\E r \in users : r.username = username
                  \/ ~\E j \in jobs : Num(j.id) = NumericId(id)
               THEN /\ out'.call.result.kind = "throw"
                    /\ out'.call.result.error = "BadRequestError"
                    /\ applications' = applications
               ELSE \E a \in applications' \ applications :
                       /\ applications' = applications \cup {a}
                       /\ a.username = username
                       /\ a.job_id = NumericId(id)]_vars

(***************************************************************************)
(* Job.create calls in flight together: each call awaits its duplicate     *)
(* check, then awaits its insert, and other calls run in between           *)
(***************************************************************************)
Callers == {1, 2}

\* Bodies for one (title, company handle) pair, and one for another pair.
RacingBodies ==
    {JobBody("cook", Num(100), Num(1), "c1"), JobBody("cook", Num(500), Undefined, "c1"),
     JobBody("baker", Num(0), Undefined, "c1")}

\* The call of a caller that is in flight.
CallOf(c) == CHOOSE x \in calls : x.caller = c

InFlight(c) == \E x \in calls : x.caller = c

\* Job.create(data) is called: nothing awaited yet.
BeginCreate(c) ==
    \E data \in RacingBodies :
        /\ ~InFlight(c)
        /\ nextId <= MaxJobs
        /\ calls' = calls \cup {[caller |-> c, pc |-> "check", data |-> data,
                                 result |-> Undefined]}
        /\ UNCHANGED <<last, prev, jobs, companies, users, nextId, queries, out,
                       applications>>

\* const duplicateCheck = await db.query(...); if (duplicateCheck.rows[0]) throw
CheckDuplicate(c) ==
    /\ InFlight(c)
    /\ CallOf(c).pc = "check"
    /\ LET call == CallOf(c)
           data == call.data
           q    == Query(<<"SELECT", "jobs", "WHERE", "title", "=", "$1", "AND",
                           "company_handle", "=", "$2">>,
                         <<data.title, data.companyHandle>>)
           err  == BadRequestError("Duplicate job listing")
       IN /\ queries' = <<q>>
          /\ IF JobsWithKey(data.title, data.companyHandle) # {}
             THEN /\ calls' = (calls \ {call}) \cup
                                 {[call EXCEPT !.pc = "done", !.result = err]}
                  /\ out' = Outcome(Direct, NoUser, "Job.create", data, err, 0, Undefined)
             ELSE /\ calls' = (calls \ {call}) \cup {[call EXCEPT !.pc = "insert"]}
                  /\ out' = out
    /\ UNCHANGED <<last, prev, jobs, companies, users, nextId, applications>>

\* const result = await db.query(`INSERT INTO jobs ...`); return result.rows[0]
InsertJob(c) ==
    /\ InFlight(c)
    /\ CallOf(c).pc = "insert"
    /\ LET call == CallOf(c)
           data == call.data
           row  == [id |-> nextId, title |-> data.title, salary |-> OrNull(data.salary),
                    equity |-> OrNull(data.equity), company_handle |-> data.companyHandle]
       IN /\ jobs' = jobs \cup {row}
          /\ nextId' = nextId + 1
          /\ queries' = <<Query(<<"INSERT", "jobs">>,
                                <<data.title, OrNull(data.salary), OrNull(data.equity),
                                  data.companyHandle>>)>>
          /\ calls' = (calls \ {call}) \cup
                         {[call EXCEPT !.pc = "done", !.result = Return(JobView(row))]}
          /\ out' = Outcome(Direct, NoUser, "Job.create", data, Return(JobView(row)),
                            0, Undefined)
    /\ UNCHANGED <<last, prev, companies, users, applications>>

\* The caller has its result; it may call again.
Settle(c) ==
    /\ InFlight(c)
    /\ CallOf(c).pc = "done"
    /\ calls' = calls \ {CallOf(c)}
    /\ UNCHANGED <<last, prev, jobs, companies, users, nextId, queries, out,
                   applications>>

RaceNext ==
    \E c \in Callers :
        \/ BeginCreate(c)
        \/ CheckDuplicate(c)
        \/ InsertJob(c)
        \/ Settle(c)

RaceSpec == Init /\ [][RaceNext]_vars

\* Two calls in flight for the same (title, company handle), both ended.
EndedTogether(x, y) ==
    /\ x.caller # y.caller
    /\ x.data.title = y.data.title
    /\ x.data.companyHandle = y.data.companyHandle
    /\ x.pc = "done"
    /\ y.pc = "done"

\* C26: of two Job.create calls for the same (title, company handle) that
\* run concurrently, at most one inserts a job, and the other one fails
\* with BadRequestError, however their queries interleave.
C26_OneCreateWins ==
    \A x, y \in calls :
        (EndedTogether(x, y) /\ x.result.kind = "return") =>
            (y.result.kind = "throw" /\ y.result.error = "BadRequestError")

====
